---- MODULE Spec2Model ----
(***************************************************************************)
(* Model of the pointer-picking system of cgar-viewer                      *)
(* (src/src/mesh/edge.rs, handle_mesh_click and its helpers) together with *)
(* the grid mesh it is run against (src/src/mesh/setup.rs).                *)
(*                                                                         *)
(* The host engine writes Pointer<Pressed> / Pointer<Released> events into *)
(* two event queues; handle_mesh_click reads both queues completely once   *)
(* per tick.  Spawn / despawn requests go through a command buffer that    *)
(* the engine applies at the next sync point of the schedule, after the    *)
(* system has returned.                                                    *)
(***************************************************************************)
EXTENDS Integers, Sequences, FiniteSets, TLC

VARIABLES
    pressQ,          \* Events<Pointer<Pressed>> not yet read
    releaseQ,        \* Events<Pointer<Released>> not yet read
    presses_pos,     \* PointerPresses.pos    : PointerId -> Vec2
    presses_target,  \* PointerPresses.target : PointerId -> Entity
    cylinders,       \* HighlightedEdges.cylinders : Vec<Entity>
    live,            \* world: live highlight entities, id -> components
    commands,        \* Commands of handle_mesh_click queued and not yet applied
    despawnErr,      \* world: a despawn command named an entity that was not live
    log,             \* observation of the last tick: one entry per release event read
    build,           \* which camera_controller runs: that of main.rs or of camera/systems.rs
    cams,            \* the entities matching the camera query: OrbitCamera, Transform, Projection
    other_cameras,   \* the Projection of every Camera3d entity without OrbitCamera
    motionQ,         \* Events<MouseMotion> not yet read by the controller
    wheelQ,          \* Events<MouseWheel> not yet read by the controller
    ticks,           \* ticks of the controller so far
    camlog,          \* observation of the last tick of the controller, if any
    edit_armed,      \* EditToggleState: the collapse mode is armed
    arrival,         \* history: the order in which the pointer events in flight were emitted
    frame,           \* history: the systems the schedules have run in the current frame
    wireframe,       \* WireframeConfig.global
    call             \* a function of the program applied on its own: name, input, result

pick_vars == <<pressQ, releaseQ, presses_pos, presses_target, cylinders, live,
               commands, despawnErr, log>>

cam_vars == <<build, cams, other_cameras, motionQ, wheelQ, ticks, camlog>>

\* the frame loop: what it ran and in which order, and the wireframe switch
loop_vars == <<arrival, frame, wireframe>>

vars == <<pressQ, releaseQ, presses_pos, presses_target, cylinders, live,
          commands, despawnErr, log, build, cams, other_cameras, motionQ, wheelQ,
          ticks, camlog, edit_armed, arrival, frame, wireframe, call>>

None == "None"

\* no function is applied on its own
NoCall == [fn |-> "-", input |-> <<>>, output |-> <<>>]

----------------------------------------------------------------------------
(* Bounds of the model *)

\* side of the vertex grid handed to create_grid_mesh
GridSize == 2
\* largest number of events in flight (both queues together) in one tick
MaxEvents == 2

----------------------------------------------------------------------------
(* Input domains *)

Pointers == {"Mouse", "Touch0"}

\* the entity that carries CgarMeshData, and a pickable entity that does not
MeshEnt == "mesh"
OtherEnt == "other"
Targets == {MeshEnt, OtherEnt}

\* pointer positions (window-logical pixels).  Only the difference of the
\* two positions is used, so presses are taken at the origin; the releases
\* give squared distances 0, 9 (the deadzone itself) and 10
PressPositions == {<<0, 0>>}
ReleasePositions == {<<0, 0>>, <<3, 0>>, <<3, 1>>}

PressEvents ==
    [pointer_id : Pointers, position : PressPositions, target : Targets]
ReleaseEvents ==
    [pointer_id : Pointers, position : ReleasePositions, target : Targets]

----------------------------------------------------------------------------
(* The mesh: create_grid_mesh(GridSize) *)

vertex_id(x, y) == y * GridSize + x

NumQuads == (GridSize - 1) * (GridSize - 1)
NumFaces == 2 * NumQuads
FaceIds == 0 .. (NumFaces - 1)

\* the vertex triple given to add_triangle for face f, in insertion order
grid_triangles ==
    [f \in FaceIds |->
        LET q == f \div 2
            x == q % (GridSize - 1)
            y == q \div (GridSize - 1)
            v00 == vertex_id(x, y)
            v10 == vertex_id(x + 1, y)
            v01 == vertex_id(x, y + 1)
            v11 == vertex_id(x + 1, y + 1)
        IN  IF f % 2 = 0 THEN <<v00, v10, v11>> ELSE <<v00, v11, v01>>]

HalfEdgeIds == 0 .. (3 * NumFaces - 1)

\* half-edge 3f+i runs from corner i to corner i+1 of face f; .vertex is the
\* vertex it points to, .next the following half-edge of the same face
half_edges ==
    [h \in HalfEdgeIds |->
        LET f == h \div 3
            i == h % 3
        IN  [vertex |-> grid_triangles[f][((i + 1) % 3) + 1],
             origin |-> grid_triangles[f][i + 1],
             next   |-> 3 * f + ((i + 1) % 3),
             face   |-> f]]

face_half_edges(f) == <<3 * f, 3 * f + 1, 3 * f + 2>>

\* the half-edge from v0 to v1, when the mesh has one (<<>> is None)
edge_half_edges(v0, v1) ==
    LET hs == {h \in HalfEdgeIds :
                 half_edges[h].origin = v0 /\ half_edges[h].vertex = v1}
    IN  IF hs = {} THEN <<>> ELSE <<CHOOSE h \in hs : TRUE>>

----------------------------------------------------------------------------
(* Collaborators whose answers are inputs of a tick *)

\* the parameter u of a hit Edge(v0, v1, u) along the edge, in tenths: a hit
\* near v0 and a hit near v1
HitParameters == {2, 8}

\* what the ray pipeline can answer for one click: viewport_to_world fails,
\* or cast_ray returns Miss, Hit(Edge(v0, v1, u)), Hit(Face(face_id, _)) or
\* a hit of another kind (fields that a kind does not carry are -1)
NoHit == [kind |-> "-", a |-> -1, b |-> -1, u |-> -1]
CastResults ==
    {[kind |-> "RayErr", a |-> -1, b |-> -1, u |-> -1],
     [kind |-> "Miss", a |-> -1, b |-> -1, u |-> -1],
     [kind |-> "Vertex", a |-> -1, b |-> -1, u |-> -1]}
    \cup {[kind |-> "Edge", a |-> half_edges[h].origin, b |-> half_edges[h].vertex,
            u |-> u] : h \in HalfEdgeIds, u \in HitParameters}
    \cup {[kind |-> "Face", a |-> f, b |-> -1, u |-> -1] : f \in FaceIds}

\* how many entities match camera_query and window_query in this tick
QueryEnvs == [cameras : 0 .. 2, windows : 0 .. 1]
EnvOk == [cameras |-> 1, windows |-> 1]

\* mesh_query.get(entity): only the mesh entity has (Mesh3d, GlobalTransform,
\* CgarMeshData)
mesh_query_get(entity) == entity = MeshEnt

----------------------------------------------------------------------------
(* HashMap and Vec helpers *)

map_insert(m, k, v) == [x \in (DOMAIN m) \cup {k} |-> IF x = k THEN v ELSE m[x]]
map_remove(m, k) == [x \in (DOMAIN m) \ {k} |-> m[x]]
map_get(m, k) == IF k \in DOMAIN m THEN m[k] ELSE None

Range(s) == {s[i] : i \in DOMAIN s}

length_squared(d) == d[1] * d[1] + d[2] * d[2]
vec_sub(p, q) == <<p[1] - q[1], p[2] - q[2]>>

----------------------------------------------------------------------------
(* handle_mesh_click *)

click_deadzone == 3
deadzone_sq == click_deadzone * click_deadzone

\* Commands::spawn reserves an entity id at once: the lowest index that is
\* neither live nor reserved earlier in this tick
alloc_entity(used) ==
    CHOOSE n \in 0 .. Cardinality(used) :
        n \notin used /\ \A m \in 0 .. Cardinality(used) : m \notin used => n <= m

\* variant: the press loop records the position and not the target
RECURSIVE read_press_events_pos_only(_, _)
read_press_events_pos_only(p, events) ==
    IF events = <<>> THEN p
    ELSE LET event == Head(events)
         IN  read_press_events_pos_only(
                 [pos    |-> map_insert(p.pos, event.pointer_id, event.position),
                  target |-> p.target],
                 Tail(events))

\* the press loop: every press event overwrites the pointer's record
RECURSIVE read_press_events(_, _)
read_press_events(p, events) ==
    IF events = <<>> THEN p
    ELSE LET event == Head(events)
         IN  read_press_events(
                 [pos    |-> map_insert(p.pos, event.pointer_id, event.position),
                  target |-> map_insert(p.target, event.pointer_id, event.target)],
                 Tail(events))

\* the state threaded through the release loop
\*   pos, target : PointerPresses          cyl : HighlightedEdges.cylinders
\*   cmds : the command buffer             reserved : ids reserved this tick
\*   log : the observations
\* variant: the entities are despawned through iter() and the list is kept
clear_edge_highlights_keep_list(st) ==
    [st EXCEPT
        !.cmds = @ \o [i \in 1 .. Len(st.cyl) |-> [op |-> "despawn", id |-> st.cyl[i]]]]

\* variant: the list is drained and its entities are left alive
clear_edge_highlights_no_despawn(st) == [st EXCEPT !.cyl = <<>>]

clear_edge_highlights(st) ==
    [st EXCEPT
        !.cmds = @ \o [i \in 1 .. Len(st.cyl) |-> [op |-> "despawn", id |-> st.cyl[i]]],
        !.cyl = <<>>]

\* spawns the cylinder entity and returns the state with the spawn command
\* queued; the new id is the last one reserved
create_edge_cylinder(st, used, edge_vertices, original_entity) ==
    LET id == alloc_entity(used \cup st.reserved)
    IN  [st EXCEPT
            !.cmds = Append(@, [op |-> "spawn", id |-> id,
                                data |-> [edge |-> edge_vertices,
                                          original_entity |-> original_entity]]),
            !.reserved = @ \cup {id},
            !.fresh = id]

\* variant: the spawned cylinder is not recorded in the list
highlight_cgar_edge_unrecorded(st, used, edge_vertices, original_entity) ==
    IF edge_half_edges(edge_vertices[1], edge_vertices[2]) # <<>>
    THEN create_edge_cylinder(st, used, edge_vertices, original_entity)
    ELSE st

highlight_cgar_edge(st, used, edge_vertices, original_entity) ==
    IF edge_half_edges(edge_vertices[1], edge_vertices[2]) # <<>>
    THEN LET s2 == create_edge_cylinder(st, used, edge_vertices, original_entity)
         IN  [s2 EXCEPT !.cyl = Append(@, s2.fresh)]
    ELSE st

\* variant: the loop stops one half-edge short
RECURSIVE highlight_face_edges_short(_, _, _, _)
highlight_face_edges_short(st, used, hes, original_entity) ==
    IF Len(hes) <= 1 THEN st
    ELSE LET edge_idx == Head(hes)
             s2 == IF edge_idx \in HalfEdgeIds
                   THEN LET he == half_edges[edge_idx]
                            v0 == he.vertex
                            v1 == half_edges[he.next].vertex
                        IN  highlight_cgar_edge(st, used, <<v0, v1>>, original_entity)
                   ELSE st
         IN  highlight_face_edges_short(s2, used, Tail(hes), original_entity)

\* the loop over face_half_edges(face_id)
RECURSIVE highlight_face_edges(_, _, _, _)
highlight_face_edges(st, used, hes, original_entity) ==
    IF hes = <<>> THEN st
    ELSE LET edge_idx == Head(hes)
             s2 == IF edge_idx \in HalfEdgeIds
                   THEN LET he == half_edges[edge_idx]
                            v0 == he.vertex
                            v1 == half_edges[he.next].vertex
                        IN  highlight_cgar_edge(st, used, <<v0, v1>>, original_entity)
                   ELSE st
         IN  highlight_face_edges(s2, used, Tail(hes), original_entity)

\* the match on the cast_ray result
interpret_hit(st, used, res, target) ==
    CASE res.kind = "Edge" -> highlight_cgar_edge(st, used, <<res.a, res.b>>, target)
      [] res.kind = "Face" -> highlight_face_edges(st, used, face_half_edges(res.a), target)
      [] OTHER -> st

\* the name of the branch a qualifying click on the mesh takes
pick_outcome(env, res) ==
    IF env.cameras # 1 THEN "NoCamera"
    ELSE IF env.windows # 1 THEN "NoWindow"
    ELSE res.kind

same_target(target, event) ==
    IF event.pointer_id \in DOMAIN target
    THEN target[event.pointer_id] = event.target
    ELSE TRUE

\* variant: the deadzone boundary counts as a drag
is_drag_boundary(moved_sq, same) == moved_sq >= deadzone_sq \/ ~same

is_drag(moved_sq, same) == moved_sq > deadzone_sq \/ ~same

\* variant: the previous highlights are cleared only once the camera and the
\* window are resolved
pick_clear_late(st, used, event, env, res) ==
    IF mesh_query_get(event.target)
    THEN IF env.cameras = 1 /\ env.windows = 1
         THEN interpret_hit(clear_edge_highlights(st), used, res, event.target)
         ELSE st
    ELSE st

\* variant: the previous highlights are cleared only when the ray hits
pick_clear_on_hit(st, used, event, env, res) ==
    IF mesh_query_get(event.target)
    THEN IF env.cameras = 1 /\ env.windows = 1
         THEN IF res.kind \in {"Edge", "Face", "Vertex"}
              THEN interpret_hit(clear_edge_highlights(st), used, res, event.target)
              ELSE st
         ELSE clear_edge_highlights(st)
    ELSE st

\* variant: the previous highlights are cleared only once the camera gave a ray
pick_clear_after_ray(st, used, event, env, res) ==
    IF mesh_query_get(event.target)
    THEN IF env.cameras = 1 /\ env.windows = 1
         THEN IF res.kind = "RayErr"
              THEN st
              ELSE interpret_hit(clear_edge_highlights(st), used, res, event.target)
         ELSE clear_edge_highlights(st)
    ELSE st

\* variant: a click on an entity without mesh geometry clears the highlights
pick_clear_any_target(st, used, event, env, res) ==
    LET cleared == clear_edge_highlights(st)
    IN  IF mesh_query_get(event.target)
        THEN IF env.cameras = 1 /\ env.windows = 1
             THEN interpret_hit(cleared, used, res, event.target)
             ELSE cleared
        ELSE cleared

\* the picking body of one qualifying click
pick(st, used, event, env, res) ==
    IF mesh_query_get(event.target)
    THEN LET cleared == clear_edge_highlights(st)
         IN  IF env.cameras = 1 /\ env.windows = 1
             THEN interpret_hit(cleared, used, res, event.target)
             ELSE cleared
    ELSE st

\* variant: only the position entry of the record is removed
remove_press_pos_only(st, pointer_id) ==
    [st EXCEPT !.pos = map_remove(@, pointer_id)]

\* presses.pos.remove(..) and presses.target.remove(..)
remove_press(st, pointer_id) ==
    [st EXCEPT !.pos = map_remove(@, pointer_id),
               !.target = map_remove(@, pointer_id)]

\* variant: the highlights are cleared before the drag test
drag_continue_cleared(st) == clear_edge_highlights(st)

\* "Treat as drag; do not click": continue with the next event
drag_continue(st) == st

\* variant: a release without a press record clears the highlights
no_press_continue_cleared(st) == clear_edge_highlights(st)

\* "let Some(start_pos) = presses.pos.remove(..) else { continue; }"
no_press_continue(st) == st

\* observation of one release event: what was read, the branch taken, the
\* cylinders list before it and the commands it queued
log_entry(event, class, start_pos, pressed_on, pick_name, res, before, cmds) ==
    [pid |-> event.pointer_id, class |-> class, start |-> start_pos,
     pressed_on |-> pressed_on, end |-> event.position, target |-> event.target,
     pick |-> pick_name, hit |-> res, before |-> before, cmds |-> cmds]

\* one iteration of the release loop
read_release_event(st, used, event, env, res) ==
    IF event.pointer_id \notin DOMAIN st.pos
    THEN LET s2 == no_press_continue(st)
         IN  [s2 EXCEPT !.log = Append(@,
                 log_entry(event, "NoPress", <<>>, None, "-", NoHit, st.cyl,
                           SubSeq(s2.cmds, Len(st.cmds) + 1, Len(s2.cmds))))]
    ELSE LET start_pos == st.pos[event.pointer_id]
             pressed_on == map_get(st.target, event.pointer_id)
             s1 == remove_press(st, event.pointer_id)
             end_pos == event.position
             moved_sq == length_squared(vec_sub(end_pos, start_pos))
             same == same_target(s1.target, event)
         IN  IF is_drag(moved_sq, same)
             THEN LET s2 == drag_continue(s1)
                  IN  [s2 EXCEPT !.log = Append(@,
                          log_entry(event, "Drag", start_pos, pressed_on, "-", NoHit,
                                    st.cyl, SubSeq(s2.cmds, Len(st.cmds) + 1, Len(s2.cmds))))]
             ELSE LET s2 == pick(s1, used, event, env, res)
                      picked == mesh_query_get(event.target)
                      name == IF picked THEN pick_outcome(env, res) ELSE "NotMesh"
                  IN  [s2 EXCEPT !.log = Append(@,
                          log_entry(event, "Click", start_pos, pressed_on, name,
                                    IF name \in {"Edge", "Face"} THEN res ELSE NoHit,
                                    st.cyl, SubSeq(s2.cmds, Len(st.cmds) + 1, Len(s2.cmds))))]

RECURSIVE read_release_events(_, _, _, _, _)
read_release_events(st, used, events, env, results) ==
    IF events = <<>> THEN st
    ELSE read_release_events(
             read_release_event(st, used, Head(events), env, Head(results)),
             used, Tail(events), env, Tail(results))

\* the engine applies a command buffer, in order
RECURSIVE apply_commands(_, _)
apply_commands(w, cmds) ==
    IF cmds = <<>> THEN w
    ELSE LET c == Head(cmds)
             w2 == IF c.op = "spawn"
                   THEN [w EXCEPT !.live = map_insert(@, c.id, c.data)]
                   ELSE IF c.id \in DOMAIN w.live
                        THEN [w EXCEPT !.live = map_remove(@, c.id)]
                        ELSE [w EXCEPT !.err = TRUE]
         IN  apply_commands(w2, Tail(cmds))

----------------------------------------------------------------------------
(* The state machine *)

Init ==
    /\ pressQ = <<>>
    /\ releaseQ = <<>>
    /\ presses_pos = <<>>
    /\ presses_target = <<>>
    /\ cylinders = <<>>
    /\ live = <<>>
    /\ commands = <<>>
    /\ despawnErr = FALSE
    /\ log = <<>>
    /\ build = "main.rs"
    /\ cams = <<>>
    /\ other_cameras = <<>>
    /\ motionQ = <<>>
    /\ wheelQ = <<>>
    /\ ticks = 0
    /\ camlog = <<>>
    /\ edit_armed = FALSE
    /\ arrival = <<>>
    /\ frame = <<>>
    /\ wireframe = FALSE
    /\ call = NoCall

\* Entity ids are opaque handles: no code reads the value of one.  The model
\* keeps the world up to a renaming of the highlight entities: when the input
\* of the next frame starts to arrive, the entities are renumbered from 0, those
\* of the cylinders list first and in its order.  The observations of the
\* tick before are dropped at the same moment.  The schedule that ran the
\* system has passed its last sync point by then: no command is pending.
rename_key(id) ==
    LET at == {i \in DOMAIN cylinders : cylinders[i] = id}
    IN  IF at = {} THEN Len(cylinders) + 1 + id
        ELSE CHOOSE i \in at : \A j \in at : i <= j

renamed(id) ==
    Cardinality({j \in Range(cylinders) \cup DOMAIN live :
                    rename_key(j) < rename_key(id)})

NextFrame ==
    /\ commands = <<>>
    /\ UNCHANGED commands
    /\ cylinders' = [i \in DOMAIN cylinders |-> renamed(cylinders[i])]
    /\ live' = [n \in {renamed(id) : id \in DOMAIN live} |->
                   live[CHOOSE id \in DOMAIN live : renamed(id) = n]]
    /\ log' = <<>>

\* the picking backend emits Pointer<Pressed>
EmitPressed(event) ==
    /\ Len(pressQ) + Len(releaseQ) < MaxEvents
    /\ pressQ' = Append(pressQ, event)
    /\ NextFrame
    /\ UNCHANGED <<releaseQ, presses_pos, presses_target, despawnErr>>
    /\ UNCHANGED cam_vars
    /\ UNCHANGED edit_armed

PointerPressed ==
    /\ \E event \in PressEvents : EmitPressed(event)
    /\ UNCHANGED loop_vars
    /\ UNCHANGED call

\* the picking backend emits Pointer<Released>
EmitReleased(event) ==
    /\ Len(pressQ) + Len(releaseQ) < MaxEvents
    /\ releaseQ' = Append(releaseQ, event)
    /\ NextFrame
    /\ UNCHANGED <<pressQ, presses_pos, presses_target, despawnErr>>
    /\ UNCHANGED cam_vars
    /\ UNCHANGED edit_armed

PointerReleased ==
    /\ \E event \in ReleaseEvents : EmitReleased(event)
    /\ UNCHANGED loop_vars
    /\ UNCHANGED call

\* the releases of the batch that consult the queries and the ray cast
\* (qualifying clicks on an entity of mesh_query): flags, one per release
cast_flags(st0, used, events) ==
    LET probe == read_release_events(st0, used, events, EnvOk,
                                     [i \in 1 .. Len(events) |-> NoHit]).log
    IN  [i \in 1 .. Len(events) |->
            probe[i].class = "Click" /\ probe[i].pick # "NotMesh"]

\* the answers the collaborators can give to a batch: an answer for every
\* release that asks, NoHit for those that do not
RECURSIVE result_seqs(_, _)
result_seqs(flags, env) ==
    IF flags = <<>> THEN {<<>>}
    ELSE LET heads == IF Head(flags) /\ env = EnvOk THEN CastResults ELSE {NoHit}
             tails == result_seqs(Tail(flags), env)
         IN  {<<h>> \o t : h \in heads, t \in tails}

\* one run of the system handle_mesh_click.  Its spawns and despawns are
\* deferred: they stay queued when the system returns, and the entities are
\* those of before.  The schedule applies the queue of a system before it
\* runs the system again.
HandleMeshClick ==
    \E p \in {read_press_events([pos |-> presses_pos, target |-> presses_target],
                                pressQ)} :
    \E st0 \in {[pos |-> p.pos, target |-> p.target, cyl |-> cylinders,
                 cmds |-> <<>>, reserved |-> {}, fresh |-> -1, log |-> <<>>]} :
    \E flags \in {cast_flags(st0, DOMAIN live, releaseQ)} :
    \E env \in (IF \E i \in DOMAIN flags : flags[i] THEN QueryEnvs ELSE {EnvOk}) :
    \E results \in result_seqs(flags, env) :
    \E st \in {read_release_events(st0, DOMAIN live, releaseQ, env, results)} :
        /\ commands = <<>>
        /\ pressQ' = <<>>
        /\ releaseQ' = <<>>
        /\ presses_pos' = st.pos
        /\ presses_target' = st.target
        /\ cylinders' = st.cyl
        /\ commands' = st.cmds
        /\ log' = st.log
        /\ UNCHANGED <<live, despawnErr>>
        /\ UNCHANGED cam_vars
        /\ UNCHANGED edit_armed
        /\ UNCHANGED loop_vars
        /\ UNCHANGED call

\* the sync point that follows handle_mesh_click in its schedule: the engine
\* applies the queued commands, in order
ApplyCommands ==
    /\ commands # <<>>
    /\ \E w \in {apply_commands([live |-> live, err |-> despawnErr], commands)} :
          /\ live' = w.live
          /\ despawnErr' = w.err
    /\ commands' = <<>>
    /\ UNCHANGED <<pressQ, releaseQ, presses_pos, presses_target, cylinders, log>>
    /\ UNCHANGED cam_vars
    /\ UNCHANGED edit_armed
    /\ UNCHANGED loop_vars
    /\ UNCHANGED call

Next == PointerPressed \/ PointerReleased \/ HandleMeshClick \/ ApplyCommands

Spec == Init /\ [][Next]_vars

\* The edit toggle.  handle_mesh_click has no parameter that carries it and
\* no system writes it; the flag and the key that flips it are taken from the
\* specification (EditToggleState, "toggled by a dedicated key event").  The
\* observations of the tick before are dropped when it flips.
EditToggled ==
    /\ edit_armed' = ~edit_armed
    /\ NextFrame
    /\ UNCHANGED <<pressQ, releaseQ, presses_pos, presses_target, despawnErr>>
    /\ UNCHANGED cam_vars
    /\ UNCHANGED loop_vars
    /\ UNCHANGED call

EditNext == Next \/ EditToggled

\* picking with a user who also arms and disarms the collapse mode
EditSpec == Init /\ [][EditNext]_vars

\* The two event types arrive in two queues, and handle_mesh_click reads the
\* queue of the presses to its end before the first release.  The order in
\* which the backend emitted the events of a batch is kept here as history:
\* one tag <<kind, pointer>> per event, for the batch in flight and, after
\* the tick, for the batch just handled.
Batch == IF pressQ = <<>> /\ releaseQ = <<>> THEN <<>> ELSE arrival

PressedInOrder ==
    \E event \in PressEvents :
        /\ EmitPressed(event)
        /\ arrival' = Append(Batch, <<"Pressed", event.pointer_id>>)
        /\ UNCHANGED <<frame, wireframe, call>>

ReleasedInOrder ==
    \E event \in ReleaseEvents :
        /\ EmitReleased(event)
        /\ arrival' = Append(Batch, <<"Released", event.pointer_id>>)
        /\ UNCHANGED <<frame, wireframe, call>>

OrderNext == PressedInOrder \/ ReleasedInOrder \/ HandleMeshClick \/ ApplyCommands

\* picking, with the order of emission of the events recorded
OrderSpec == Init /\ [][OrderNext]_vars

----------------------------------------------------------------------------
(* The orbit camera controller: camera_controller of src/src/main.rs and    *)
(* camera_controller of src/src/camera/systems.rs, the two builds of the   *)
(* system, each with the camera its own setup spawns.                      *)
(*                                                                         *)
(* Numbers are fixed point: lengths and the projection scale in 1/100,     *)
(* angles in 1/200 rad, the rotation of one pixel of pointer travel        *)
(* (sensitivity 0.005).  transform.translation is kept relative to         *)
(* orbit.focus and in the spherical coordinates the controller itself      *)
(* uses: dist = |offset|, theta = atan2(offset.z, offset.x),               *)
(* phi = acos(offset.y / |offset|).  A vector with NaN components has      *)
(* nan = TRUE.  transform.rotation is what look_at makes of the            *)
(* translation and the focus and is not kept.                              *)

\* ticks of the controller in one behaviour
MaxTicks == 2
\* largest number of input events in flight (motion and wheel together)
MaxInput == 2
\* most entities that match the camera query
MaxCameras == 2
\* most Camera3d entities that the camera query does not match
MaxOtherCameras == 1

Builds == {"main.rs", "camera/systems.rs"}

\* MouseMotion.delta, in pixels: 314 pixels turn the camera a quarter turn,
\* 300 pixels carry the polar angle past either pole
MotionDeltas == {<<0, 0>>, <<314, 0>>, <<0, 300>>}
\* MouseWheel.y, in lines: one notch in, and two strokes large enough to
\* drive the radius and the scale against either clamp
WheelLines == {1, 20, -80}

\* orbit.radius.clamp(0.1, 20.0)
radius_min == 10
radius_max == 2000
\* ortho.scale.clamp(0.1, 10.0)
scale_min == 10
scale_max == 1000
\* orbit.radius -= 0.1 / += 0.1
key_zoom_step == 10
\* phi.clamp(0.01, PI - 0.01): 0.01 rad and 3.1316 rad
phi_min == 2
phi_max == 626

\* cos(k * 0.005) * 10^6 for k = 0 .. 628, rounded
cos_table == <<
    1000000, 999988, 999950, 999888, 999800, 999688, 999550, 999388, 999200, 998988,
    998750, 998488, 998201, 997888, 997551, 997189, 996802, 996390, 995953, 995491,
    995004, 994493, 993956, 993395, 992809, 992198, 991562, 990901, 990216, 989506,
    988771, 988012, 987227, 986418, 985585, 984727, 983844, 982936, 982004, 981048,
    980067, 979061, 978031, 976976, 975897, 974794, 973666, 972514, 971338, 970137,
    968912, 967663, 966390, 965093, 963771, 962425, 961055, 959662, 958244, 956802,
    955336, 953847, 952334, 950796, 949235, 947651, 946042, 944410, 942755, 941075,
    939373, 937646, 935897, 934124, 932327, 930508, 928665, 926798, 924909, 922997,
    921061, 919102, 917121, 915116, 913089, 911039, 908966, 906870, 904752, 902611,
    900447, 898261, 896052, 893822, 891568, 889293, 886995, 884675, 882333, 879969,
    877583, 875174, 872745, 870293, 867819, 865324, 862807, 860269, 857709, 855127,
    852525, 849900, 847255, 844589, 841901, 839192, 836463, 833712, 830941, 828148,
    825336, 822502, 819648, 816773, 813878, 810963, 808028, 805072, 802096, 799100,
    796084, 793048, 789992, 786917, 783822, 780707, 777573, 774419, 771246, 768054,
    764842, 761612, 758362, 755093, 751806, 748499, 745174, 741831, 738469, 735088,
    731689, 728272, 724836, 721382, 717911, 714421, 710914, 707388, 703845, 700285,
    696707, 693111, 689498, 685868, 682221, 678557, 674876, 671178, 667463, 663731,
    659983, 656219, 652437, 648640, 644827, 640997, 637151, 633290, 629412, 625519,
    621610, 617686, 613746, 609791, 605820, 601835, 597834, 593818, 589788, 585743,
    581683, 577609, 573520, 569417, 565300, 561168, 557023, 552863, 548690, 544503,
    540302, 536088, 531861, 527620, 523366, 519099, 514819, 510526, 506220, 501902,
    497571, 493228, 488872, 484504, 480124, 475732, 471328, 466913, 462485, 458046,
    453596, 449134, 444662, 440177, 435682, 431177, 426660, 422132, 417595, 413046,
    408487, 403919, 399340, 394751, 390152, 385543, 380925, 376297, 371660, 367013,
    362358, 357693, 353019, 348337, 343646, 338946, 334238, 329521, 324796, 320063,
    315322, 310574, 305817, 301053, 296281, 291502, 286715, 281922, 277121, 272313,
    267499, 262678, 257850, 253016, 248175, 243329, 238476, 233617, 228753, 223883,
    219007, 214125, 209239, 204347, 199450, 194548, 189641, 184729, 179813, 174892,
    169967, 165038, 160104, 155167, 150225, 145280, 140332, 135379, 130424, 125465,
    120503, 115538, 110570, 105599, 100626, 95650, 90672, 85691, 80708, 75724,
    70737, 65749, 60759, 55767, 50774, 45780, 40785, 35789, 30791, 25793,
    20795, 15796, 10796, 5796, 796, -4204, -9204, -14203, -19202, -24201,
    -29200, -34197, -39194, -44189, -49184, -54177, -59169, -64160, -69148, -74136,
    -79121, -84104, -89085, -94064, -99041, -104015, -108987, -113956, -118922, -123885,
    -128844, -133801, -138755, -143704, -148651, -153593, -158532, -163467, -168397, -173324,
    -178246, -183164, -188077, -192985, -197889, -202787, -207681, -212569, -217452, -222330,
    -227202, -232068, -236929, -241784, -246632, -251475, -256311, -261141, -265964, -270780,
    -275590, -280393, -285189, -289978, -294759, -299534, -304300, -309059, -313811, -318554,
    -323290, -328017, -332736, -337447, -342150, -346844, -351529, -356205, -360873, -365531,
    -370181, -374821, -379452, -384073, -388685, -393287, -397879, -402461, -407033, -411595,
    -416147, -420688, -425219, -429739, -434248, -438747, -443234, -447711, -452176, -456630,
    -461073, -465504, -469923, -474331, -478727, -483110, -487482, -491842, -496189, -500524,
    -504846, -509156, -513453, -517737, -522008, -526266, -530511, -534743, -538961, -543166,
    -547358, -551535, -555699, -559849, -563985, -568107, -572215, -576308, -580387, -584451,
    -588501, -592536, -596557, -600562, -604552, -608528, -612488, -616432, -620362, -624275,
    -628174, -632056, -635923, -639774, -643608, -647427, -651230, -655016, -658786, -662539,
    -666276, -669996, -673700, -677386, -681056, -684709, -688344, -691962, -695563, -699147,
    -702713, -706262, -709793, -713306, -716801, -720278, -723738, -727179, -730602, -734007,
    -737394, -740762, -744111, -747442, -750755, -754048, -757323, -760578, -763815, -767033,
    -770231, -773410, -776570, -779711, -782832, -785933, -789015, -792077, -795119, -798141,
    -801144, -804126, -807088, -810030, -812952, -815854, -818735, -821595, -824435, -827255,
    -830054, -832832, -835589, -838325, -841040, -843735, -846408, -849060, -851691, -854301,
    -856889, -859456, -862001, -864525, -867027, -869507, -871966, -874403, -876818, -879211,
    -881582, -883931, -886258, -888563, -890846, -893106, -895344, -897560, -899753, -901924,
    -904072, -906198, -908301, -910381, -912438, -914473, -916485, -918474, -920440, -922383,
    -924302, -926199, -928073, -929923, -931750, -933554, -935335, -937092, -938825, -940536,
    -942222, -943885, -945525, -947141, -948733, -950302, -951847, -953367, -954865, -956338,
    -957787, -959213, -960614, -961991, -963345, -964674, -965979, -967260, -968517, -969750,
    -970958, -972142, -973302, -974438, -975549, -976635, -977698, -978736, -979749, -980738,
    -981702, -982642, -983557, -984448, -985314, -986156, -986972, -987764, -988532, -989275,
    -989992, -990686, -991354, -991998, -992617, -993211, -993780, -994324, -994844, -995339,
    -995808, -996253, -996673, -997068, -997438, -997784, -998104, -998399, -998669, -998915,
    -999135, -999331, -999501, -999646, -999767, -999862, -999933, -999978, -999999 >>

f32_cos(a) == cos_table[a + 1]

\* acos(q / 10^6): NaN outside [-1, 1], else the first angle of the table
\* whose cosine is not above q
f32_acos(q) ==
    IF q > 1000000 \/ q < -1000000
    THEN [nan |-> TRUE, v |-> 0]
    ELSE [nan |-> FALSE, v |-> Cardinality({k \in 1 .. Len(cos_table) : cos_table[k] > q})]

f32_clamp(x, lo, hi) == IF x < lo THEN lo ELSE IF x > hi THEN hi ELSE x

\* atan2 answers within (-pi, pi]
wrap_angle(t) == ((t + 628) % 1257) - 628

vec_add(p, q) == <<p[1] + q[1], p[2] + q[2]>>

RECURSIVE f32_sum(_)
f32_sum(ys) == IF ys = <<>> THEN 0 ELSE Head(ys) + f32_sum(Tail(ys))

\* the camera entity spawned by setup_camera_light of main.rs:
\* Transform::from_xyz(2.5, 2.0, 5.0), |(2.5, 2, 5)| = 5.937, with
\* OrbitCamera { focus: ZERO, radius: 5.0 } and the default (perspective)
\* projection
spawn_main ==
    [focus |-> <<>>, radius |-> 500, upside_down |-> FALSE, last_mouse_pos |-> <<>>,
     translation |-> [nan |-> FALSE, dist |-> 594, theta |-> 221, phi |-> 245],
     projection |-> [kind |-> "Perspective", scale |-> 0]]

\* the camera entity spawned by setup_camera_and_light of lighting/setup.rs:
\* Transform::from_xyz(0.0, 0.0, 10.0) with OrbitCamera { radius: 10.0 } and
\* an orthographic projection of scale 2.0
spawn_systems ==
    [focus |-> <<>>, radius |-> 1000, upside_down |-> FALSE, last_mouse_pos |-> <<>>,
     translation |-> [nan |-> FALSE, dist |-> 1000, theta |-> 314, phi |-> 314],
     projection |-> [kind |-> "Orthographic", scale |-> 200]]

spawn_camera(b) == IF b = "main.rs" THEN spawn_main ELSE spawn_systems

\* the loop over mouse_motion.read() while a button is held: the first
\* event after None only stores its delta, every later one adds the
\* difference to the one before
RECURSIVE read_motion(_, _, _)
\* variant: the raw deltas are accumulated
RECURSIVE read_motion_raw(_, _, _)
read_motion_raw(last_mouse_pos, move, events) ==
    IF events = <<>> THEN [last_mouse_pos |-> last_mouse_pos, move |-> move]
    ELSE LET delta == Head(events)
         IN  read_motion_raw(<<delta>>, vec_add(move, delta), Tail(events))

read_motion(last_mouse_pos, move, events) ==
    IF events = <<>> THEN [last_mouse_pos |-> last_mouse_pos, move |-> move]
    ELSE LET delta == Head(events)
             move2 == IF last_mouse_pos # <<>>
                      THEN vec_add(move, vec_sub(delta, last_mouse_pos[1]))
                      ELSE move
         IN  read_motion(<<delta>>, move2, Tail(events))

\* variant: without a button held the last sample is kept
read_buttons_keep_sample(last_mouse_pos, left, right, events) ==
    IF left
    THEN LET m == read_motion(last_mouse_pos, <<0, 0>>, events)
         IN  [last_mouse_pos |-> m.last_mouse_pos, rotation_move |-> m.move,
              pan_move |-> <<0, 0>>]
    ELSE IF right
    THEN LET m == read_motion(last_mouse_pos, <<0, 0>>, events)
         IN  [last_mouse_pos |-> m.last_mouse_pos, rotation_move |-> <<0, 0>>,
              pan_move |-> m.move]
    ELSE [last_mouse_pos |-> last_mouse_pos, rotation_move |-> <<0, 0>>,
          pan_move |-> <<0, 0>>]

\* variant: the right button is tested first
read_buttons_right_first(last_mouse_pos, left, right, events) ==
    IF right
    THEN LET m == read_motion(last_mouse_pos, <<0, 0>>, events)
         IN  [last_mouse_pos |-> m.last_mouse_pos, rotation_move |-> <<0, 0>>,
              pan_move |-> m.move]
    ELSE IF left
    THEN LET m == read_motion(last_mouse_pos, <<0, 0>>, events)
         IN  [last_mouse_pos |-> m.last_mouse_pos, rotation_move |-> m.move,
              pan_move |-> <<0, 0>>]
    ELSE [last_mouse_pos |-> <<>>, rotation_move |-> <<0, 0>>, pan_move |-> <<0, 0>>]

\* the button branches: what the tick makes of the motion events
read_buttons(last_mouse_pos, left, right, events) ==
    IF left
    THEN LET m == read_motion(last_mouse_pos, <<0, 0>>, events)
         IN  [last_mouse_pos |-> m.last_mouse_pos, rotation_move |-> m.move,
              pan_move |-> <<0, 0>>]
    ELSE IF right
    THEN LET m == read_motion(last_mouse_pos, <<0, 0>>, events)
         IN  [last_mouse_pos |-> m.last_mouse_pos, rotation_move |-> <<0, 0>>,
              pan_move |-> m.move]
    ELSE [last_mouse_pos |-> <<>>, rotation_move |-> <<0, 0>>, pan_move |-> <<0, 0>>]

\* variant: the wheel is summed only in the branch without a button
read_input_wheel_when_idle(last_mouse_pos, inp, motion, wheel) ==
    [b |-> read_buttons(last_mouse_pos, inp.left, inp.right, motion),
     scroll |-> IF inp.left \/ inp.right THEN 0 ELSE f32_sum(wheel)]

\* the input a tick reads: the motion events through the button branches,
\* then every wheel event, summed
read_input(last_mouse_pos, inp, motion, wheel) ==
    [b |-> read_buttons(last_mouse_pos, inp.left, inp.right, motion),
     scroll |-> f32_sum(wheel)]

\* variant: the scroll formula without its clamp
zoom_scroll_unclamped(radius, scroll) ==
    IF scroll # 0 THEN radius - ((scroll * radius * 5) \div 100) ELSE radius

\* orbit.radius -= scroll * orbit.radius * 0.05, then clamp
zoom_scroll(radius, scroll) ==
    IF scroll # 0
    THEN f32_clamp(radius - ((scroll * radius * 5) \div 100), radius_min, radius_max)
    ELSE radius

\* KeyCode::Equal, then KeyCode::Minus, each with its clamp
zoom_keys(radius, equal, minus) ==
    LET r1 == IF equal
              THEN f32_clamp(radius - key_zoom_step, radius_min, radius_max)
              ELSE radius
    IN  IF minus
        THEN f32_clamp(r1 + key_zoom_step, radius_min, radius_max)
        ELSE r1

\* variant: the keys are looked at only in a tick without scroll
zoom_else_if(radius, scroll, equal, minus) ==
    IF scroll # 0 THEN zoom_scroll(radius, scroll) ELSE zoom_keys(radius, equal, minus)

\* the zoom step of main.rs: the scroll formula, then the keys
zoom(radius, scroll, equal, minus) ==
    zoom_keys(zoom_scroll(radius, scroll), equal, minus)

\* ortho.scale *= 1.0 - scroll * 0.1, then clamp; other projections are
\* left alone
zoom_projection(projection, scroll) ==
    IF projection.kind = "Orthographic" /\ scroll # 0
    THEN [projection EXCEPT
             !.scale = f32_clamp((@ * (10 - scroll)) \div 10, scale_min, scale_max)]
    ELSE projection

\* offset.y / orbit.radius, times 10^6
acos_argument(c) == (c.translation.dist * f32_cos(c.translation.phi)) \div c.radius

\* the polar angle the rotation step rebuilds the offset from
rotation_phi(c, rotation_move) ==
    IF c.translation.nan THEN [nan |-> TRUE, v |-> 0]
    ELSE LET phi == f32_acos(acos_argument(c))
         IN  IF phi.nan THEN phi
             ELSE [nan |-> FALSE, v |-> f32_clamp(phi.v - rotation_move[2], phi_min, phi_max)]

\* cos and sin of any angle, from the table by symmetry (2 pi = 1257)
cos_any(a) ==
    LET m == (IF a < 0 THEN -a ELSE a) % 1257
    IN  IF m <= 628 THEN f32_cos(m) ELSE f32_cos(1257 - m)

sin_any(a) == cos_any(a - 314)

\* Vec3::new(r * sin(phi) * cos(theta), r * cos(phi), r * sin(phi) * sin(theta)),
\* in 1/100
new_position(radius, theta, phi) ==
    LET h == (radius * sin_any(phi)) \div 1000000
    IN  <<(h * cos_any(theta)) \div 1000000,
          (radius * cos_any(phi)) \div 1000000,
          (h * sin_any(theta)) \div 1000000>>

\* variant: the azimuth turns the other way
rotate_reversed(c, rotation_move) ==
    LET phi == rotation_phi(c, rotation_move)
        theta == wrap_angle(c.translation.theta - rotation_move[1])
    IN  IF phi.nan
        THEN [c EXCEPT !.translation = [nan |-> TRUE, dist |-> 0, theta |-> 0, phi |-> 0]]
        ELSE [c EXCEPT !.translation =
                 [nan |-> FALSE, dist |-> c.radius, theta |-> theta, phi |-> phi.v]]

\* variant: a rotation marks the camera as upside down
rotate_marks_upside_down(c, rotation_move) ==
    LET phi == rotation_phi(c, rotation_move)
        theta == wrap_angle(c.translation.theta + rotation_move[1])
    IN  IF phi.nan
        THEN [c EXCEPT !.translation = [nan |-> TRUE, dist |-> 0, theta |-> 0, phi |-> 0]]
        ELSE [c EXCEPT !.upside_down = TRUE,
                       !.translation =
                 [nan |-> FALSE, dist |-> c.radius, theta |-> theta, phi |-> phi.v]]

\* the rotation step
rotate(c, rotation_move) ==
    LET phi == rotation_phi(c, rotation_move)
        theta == wrap_angle(c.translation.theta + rotation_move[1])
    IN  IF phi.nan
        THEN [c EXCEPT !.translation = [nan |-> TRUE, dist |-> 0, theta |-> 0, phi |-> 0]]
        ELSE [c EXCEPT !.translation =
                 [nan |-> FALSE, dist |-> c.radius, theta |-> theta, phi |-> phi.v]]

\* the pan step: the focus moves by (-right * x + up * y) * 0.001 * radius,
\* right and up being the axes of the camera as it stands; the translation
\* moves with it.  The focus is kept as the list of the offsets added to
\* Vec3::ZERO.
pan(c, pan_move) ==
    [c EXCEPT !.focus = Append(@, [move |-> pan_move, radius |-> c.radius,
                                  axes |-> c.translation])]

\* position.normalize() * orbit.radius; an offset of length zero has no
\* direction: Vec3::normalize multiplies it by 1/0 and gives NaN
renormalize(c) ==
    IF c.translation.nan THEN c
    ELSE IF c.translation.dist = 0
    THEN [c EXCEPT !.translation = [nan |-> TRUE, dist |-> 0, theta |-> 0, phi |-> 0]]
    ELSE [c EXCEPT !.translation.dist = c.radius]

\* variant: the camera is put back on its radius before it is rotated and
\* panned, not after
move_camera_renormalize_first(c, rotation_move, pan_move, orbit_button_changed) ==
    LET rotated == length_squared(rotation_move) > 0
        panned == length_squared(pan_move) > 0
        c0 == IF orbit_button_changed \/ rotated \/ panned THEN renormalize(c) ELSE c
        c1 == IF rotated THEN rotate(c0, rotation_move) ELSE c0
    IN  IF panned THEN pan(c1, pan_move) ELSE c1

\* the three steps after the input was read and the zoom applied
move_camera(c, rotation_move, pan_move, orbit_button_changed) ==
    LET rotated == length_squared(rotation_move) > 0
        panned == length_squared(pan_move) > 0
        c1 == IF rotated THEN rotate(c, rotation_move) ELSE c
        c2 == IF panned THEN pan(c1, pan_move) ELSE c1
    IN  IF orbit_button_changed \/ rotated \/ panned THEN renormalize(c2) ELSE c2

\* observation of one tick: the inputs it read, the moves it accumulated,
\* the polar angle of its rotation step (if it had one) and the cameras
\* it found
tick_entry(resolved, inp, nmotion, nwheel, scroll, b, phi, before) ==
    [resolved |-> resolved, left |-> inp.left, right |-> inp.right,
     equal |-> inp.equal, minus |-> inp.minus,
     motion_read |-> nmotion, wheel_read |-> nwheel, scroll |-> scroll,
     rotation_move |-> b.rotation_move, pan_move |-> b.pan_move,
     phi |-> phi, before |-> before]

NoInput == [left |-> FALSE, right |-> FALSE, equal |-> FALSE, minus |-> FALSE]
NoMove == [rotation_move |-> <<0, 0>>, pan_move |-> <<0, 0>>]

\* variant: without a single match every camera is put back on its radius
no_camera_renormalized(cs, motion, wheel) ==
    [cams |-> [i \in DOMAIN cs |-> renormalize(cs[i])], motion |-> motion,
     wheel |-> wheel,
     obs |-> tick_entry(FALSE, NoInput, 0, 0, 0, NoMove, <<>>, cs)]

\* the early return of a tick whose camera query does not resolve
no_camera(cs, motion, wheel) ==
    [cams |-> cs, motion |-> motion, wheel |-> wheel,
     obs |-> tick_entry(FALSE, NoInput, 0, 0, 0, NoMove, <<>>, cs)]

\* camera_controller of main.rs
camera_controller_main(cs, motion, wheel, inp) ==
    IF Len(cs) # 1 THEN no_camera(cs, motion, wheel)
    ELSE LET c == cs[1]
             input == read_input(c.last_mouse_pos, inp, motion, wheel)
             b == input.b
             scroll == input.scroll
             radius == zoom(c.radius, scroll, inp.equal, inp.minus)
             zoomed == scroll # 0 \/ inp.equal \/ inp.minus
             c1 == [c EXCEPT !.last_mouse_pos = b.last_mouse_pos, !.radius = radius]
             phi == IF length_squared(b.rotation_move) > 0
                    THEN <<rotation_phi(c1, b.rotation_move)>> ELSE <<>>
         IN  [cams |-> <<move_camera(c1, b.rotation_move, b.pan_move, zoomed)>>,
              motion |-> <<>>, wheel |-> <<>>,
              obs |-> tick_entry(TRUE, inp, Len(motion), Len(wheel), scroll, b, phi, cs)]

\* the matches of Query<&mut Projection, With<Camera3d>>: the Camera3d
\* entities that have a Projection, whether they carry an OrbitCamera or not
\* (kind "None": the entity has no Projection component)
projection_query(cs, others) ==
    SelectSeq([i \in DOMAIN cs |-> cs[i].projection] \o others,
              LAMBDA projection : projection.kind # "None")

\* camera_controller of camera/systems.rs; the projection it zooms is the
\* single match of the projection query, when the query has a single match
camera_controller_systems(cs, others, motion, wheel, inp) ==
    IF Len(cs) # 1
    THEN LET r == no_camera(cs, motion, wheel)
         IN  [cams |-> r.cams, others |-> others, motion |-> r.motion,
              wheel |-> r.wheel, obs |-> r.obs]
    ELSE LET c == cs[1]
             input == read_input(c.last_mouse_pos, inp, motion, wheel)
             b == input.b
             scroll == input.scroll
             single == Len(projection_query(cs, others)) = 1
             own == single /\ c.projection.kind # "None"
             c1 == [c EXCEPT !.last_mouse_pos = b.last_mouse_pos,
                             !.projection = IF own THEN zoom_projection(@, scroll) ELSE @]
             phi == IF length_squared(b.rotation_move) > 0
                    THEN <<rotation_phi(c1, b.rotation_move)>> ELSE <<>>
         IN  [cams |-> <<move_camera(c1, b.rotation_move, b.pan_move, FALSE)>>,
              others |-> IF single /\ ~own
                         THEN <<zoom_projection(others[1], scroll)>> ELSE others,
              motion |-> <<>>, wheel |-> <<>>,
              obs |-> tick_entry(TRUE, inp, Len(motion), Len(wheel), scroll, b, phi, cs)]

\* the state the picking variables are left in
PickingIdle ==
    /\ pressQ = <<>>
    /\ releaseQ = <<>>
    /\ presses_pos = <<>>
    /\ presses_target = <<>>
    /\ cylinders = <<>>
    /\ live = <<>>
    /\ commands = <<>>
    /\ despawnErr = FALSE
    /\ log = <<>>
    /\ edit_armed = FALSE
    /\ arrival = <<>>
    /\ frame = <<>>
    /\ wireframe = FALSE

\* after Startup: the cameras of the build, one as the setup spawns it, or
\* none, or several
CamInit ==
    /\ PickingIdle
    /\ call = NoCall
    /\ build \in Builds
    /\ \E n \in 0 .. MaxCameras : cams = [i \in 1 .. n |-> spawn_camera(build)]
    /\ \E n \in 0 .. MaxOtherCameras :
           other_cameras = [i \in 1 .. n |-> spawn_systems.projection]
    /\ motionQ = <<>>
    /\ wheelQ = <<>>
    /\ ticks = 0
    /\ camlog = <<>>

\* the window backend emits MouseMotion
MouseMoved ==
    /\ ticks < MaxTicks
    /\ Len(motionQ) + Len(wheelQ) < MaxInput
    /\ \E delta \in MotionDeltas : motionQ' = Append(motionQ, delta)
    /\ camlog' = <<>>
    /\ UNCHANGED <<build, cams, other_cameras, wheelQ, ticks>>
    /\ UNCHANGED pick_vars
    /\ UNCHANGED edit_armed
    /\ UNCHANGED loop_vars
    /\ UNCHANGED call

\* the window backend emits MouseWheel
WheelTurned ==
    /\ ticks < MaxTicks
    /\ Len(motionQ) + Len(wheelQ) < MaxInput
    /\ \E y \in WheelLines : wheelQ' = Append(wheelQ, y)
    /\ camlog' = <<>>
    /\ UNCHANGED <<build, cams, other_cameras, motionQ, ticks>>
    /\ UNCHANGED pick_vars
    /\ UNCHANGED edit_armed
    /\ UNCHANGED loop_vars
    /\ UNCHANGED call

\* one run of camera_controller of main.rs: buttons and keys as they are held
RunCameraControllerMain ==
    /\ build = "main.rs"
    /\ ticks < MaxTicks
    /\ \E inp \in [left : BOOLEAN, right : BOOLEAN, equal : BOOLEAN, minus : BOOLEAN] :
       \E r \in {camera_controller_main(cams, motionQ, wheelQ, inp)} :
          /\ cams' = r.cams
          /\ motionQ' = r.motion
          /\ wheelQ' = r.wheel
          /\ camlog' = <<r.obs>>
    /\ ticks' = ticks + 1
    /\ UNCHANGED <<build, other_cameras>>
    /\ UNCHANGED pick_vars
    /\ UNCHANGED edit_armed

\* one tick of the binary of main.rs
CameraControllerMain ==
    /\ RunCameraControllerMain
    /\ UNCHANGED loop_vars
    /\ UNCHANGED call

\* one tick of the system of camera/systems.rs, which reads no key
CameraControllerSystems ==
    /\ build = "camera/systems.rs"
    /\ ticks < MaxTicks
    /\ \E inp \in [left : BOOLEAN, right : BOOLEAN, equal : {FALSE}, minus : {FALSE}] :
       \E r \in {camera_controller_systems(cams, other_cameras, motionQ, wheelQ, inp)} :
          /\ cams' = r.cams
          /\ other_cameras' = r.others
          /\ motionQ' = r.motion
          /\ wheelQ' = r.wheel
          /\ camlog' = <<r.obs>>
    /\ ticks' = ticks + 1
    /\ UNCHANGED build
    /\ UNCHANGED pick_vars
    /\ UNCHANGED edit_armed
    /\ UNCHANGED loop_vars
    /\ UNCHANGED call

CamNext == MouseMoved \/ WheelTurned \/ CameraControllerMain \/ CameraControllerSystems

CamSpec == CamInit /\ [][CamNext]_vars

\* The rotation step as a function of the pose it finds: the controller of
\* camera/systems.rs started from poses on the orbit sphere that it reaches
\* from the spawned one (azimuth 0 or pi/2, polar angle pi/2 or 0.07), with
\* the spawned focus, radius and projection.
OrbitPoses ==
    {[nan |-> FALSE, dist |-> spawn_systems.radius, theta |-> theta, phi |-> phi] :
        theta \in {0, 314}, phi \in {14, 314}}

OrbitInit ==
    /\ PickingIdle
    /\ call = NoCall
    /\ build = "camera/systems.rs"
    /\ \E pose \in OrbitPoses : cams = <<[spawn_systems EXCEPT !.translation = pose]>>
    /\ other_cameras = <<>>
    /\ motionQ = <<>>
    /\ wheelQ = <<>>
    /\ ticks = 0
    /\ camlog = <<>>

OrbitNext == MouseMoved \/ WheelTurned \/ CameraControllerSystems

OrbitSpec == OrbitInit /\ [][OrbitNext]_vars

----------------------------------------------------------------------------
(* The frame loop of the application of main.rs: the schedules and the      *)
(* systems the App builder puts in them.                                    *)

\* .add_systems(Update, (toggle_wireframe, camera_controller)): two systems
\* of one schedule, with no order between them
update_systems == {"toggle_wireframe", "camera_controller"}

\* the systems that have run in the current frame
Ran == {frame[i] : i \in DOMAIN frame}

\* variant: the key switches the wireframe on
toggle_wireframe_sets(global, just_pressed) == IF just_pressed THEN TRUE ELSE global

\* toggle_wireframe, at its place in the Update schedule
toggle_wireframe(global, just_pressed) == IF just_pressed THEN ~global ELSE global

\* the input of the frame arrives before its schedules run
FrameMouseMoved == frame = <<>> /\ MouseMoved

FrameWheelTurned == frame = <<>> /\ WheelTurned

FrameToggleWireframe ==
    /\ ticks < MaxTicks
    /\ "toggle_wireframe" \notin Ran
    /\ "propagate_transforms" \notin Ran
    /\ \E just_pressed \in BOOLEAN : wireframe' = toggle_wireframe(wireframe, just_pressed)
    /\ frame' = Append(frame, "toggle_wireframe")
    /\ UNCHANGED <<arrival, call>>
    /\ UNCHANGED pick_vars
    /\ UNCHANGED cam_vars
    /\ UNCHANGED edit_armed

FrameCameraController ==
    /\ "camera_controller" \notin Ran
    /\ "propagate_transforms" \notin Ran
    /\ RunCameraControllerMain
    /\ frame' = Append(frame, "camera_controller")
    /\ UNCHANGED <<arrival, wireframe, call>>

\* PostUpdate: the transform propagation of DefaultPlugins, once the Update
\* schedule has run all its systems
FramePropagateTransforms ==
    /\ update_systems \subseteq Ran
    /\ "propagate_transforms" \notin Ran
    /\ frame' = Append(frame, "propagate_transforms")
    /\ UNCHANGED <<arrival, wireframe, call>>
    /\ UNCHANGED pick_vars
    /\ UNCHANGED cam_vars
    /\ UNCHANGED edit_armed

\* the frame is over
FrameEnd ==
    /\ "propagate_transforms" \in Ran
    /\ frame' = <<>>
    /\ UNCHANGED <<arrival, wireframe, call>>
    /\ UNCHANGED pick_vars
    /\ UNCHANGED cam_vars
    /\ UNCHANGED edit_armed

FrameInit == CamInit /\ build = "main.rs"

FrameNext ==
    \/ FrameMouseMoved
    \/ FrameWheelTurned
    \/ FrameToggleWireframe
    \/ FrameCameraController
    \/ FramePropagateTransforms
    \/ FrameEnd

FrameSpec == FrameInit /\ [][FrameNext]_vars

----------------------------------------------------------------------------
(* Functions of the program applied on their own: the input is drawn at     *)
(* the start, one step applies the function and keeps its result.           *)

\* nothing else of the program is running
ProgramIdle ==
    /\ PickingIdle
    /\ build = "camera/systems.rs"
    /\ cams = <<>>
    /\ other_cameras = <<>>
    /\ motionQ = <<>>
    /\ wheelQ = <<>>
    /\ ticks = 0
    /\ camlog = <<>>

Applied(fn, result) ==
    /\ call.fn = fn
    /\ call.output = <<>>
    /\ call' = [call EXCEPT !.output = <<result>>]
    /\ UNCHANGED pick_vars
    /\ UNCHANGED cam_vars
    /\ UNCHANGED <<edit_armed, arrival, frame, wireframe>>

\* the function fn was applied
Returned(fn) == call.fn = fn /\ call.output # <<>>

----------------------------------------------------------------------------
(* toggle_wireframe over the ticks of a key: ButtonInput<KeyCode> of key W  *)
(* in each tick is up, just pressed, or still held from a tick before.      *)

\* ticks of the key
MaxKeyTicks == 4

KeyUp == [pressed |-> FALSE, just_pressed |-> FALSE]
KeyJustPressed == [pressed |-> TRUE, just_pressed |-> TRUE]
KeyHeld == [pressed |-> TRUE, just_pressed |-> FALSE]

\* a key is held only from a tick in which it was down
KeyHistories ==
    {ks \in [1 .. MaxKeyTicks -> {KeyUp, KeyJustPressed, KeyHeld}] :
        /\ ks[1] # KeyHeld
        /\ \A n \in 2 .. MaxKeyTicks : ks[n] = KeyHeld => ks[n - 1].pressed}

WireframeInit ==
    /\ ProgramIdle
    /\ \E global \in BOOLEAN, ks \in KeyHistories :
           call = [fn |-> "toggle_wireframe", input |-> [global |-> global, kb |-> ks],
                   output |-> <<>>]

\* one tick: toggle_wireframe runs on the configuration the tick before left
WireframeTick ==
    /\ call.fn = "toggle_wireframe"
    /\ Len(call.output) < MaxKeyTicks
    /\ LET n == Len(call.output) + 1
           global == IF n = 1 THEN call.input.global ELSE call.output[n - 1]
       IN  call' = [call EXCEPT !.output =
                       Append(@, toggle_wireframe(global, call.input.kb[n].just_pressed))]
    /\ UNCHANGED pick_vars
    /\ UNCHANGED cam_vars
    /\ UNCHANGED <<edit_armed, arrival, frame, wireframe>>

WireframeNext == WireframeTick

WireframeSpec == WireframeInit /\ [][WireframeNext]_vars

----------------------------------------------------------------------------
(* Vectors of integer coordinates.                                          *)

abs(x) == IF x < 0 THEN -x ELSE x

vec3_length_squared(v) == v[1] * v[1] + v[2] * v[2] + v[3] * v[3]

RECURSIVE gcd(_, _)
gcd(a, b) == IF b = 0 THEN a ELSE gcd(b, a % b)

NaNVec3 == [nan |-> TRUE, along |-> <<0, 0, 0>>]

\* Vec3::normalize: v * (1 / |v|), the unit vector along v; NaN in every
\* coordinate when |v| = 0
vec3_normalize(v) ==
    IF vec3_length_squared(v) = 0 THEN NaNVec3
    ELSE LET g == gcd(gcd(abs(v[1]), abs(v[2])), abs(v[3]))
         IN  [nan |-> FALSE, along |-> <<v[1] \div g, v[2] \div g, v[3] \div g>>]

----------------------------------------------------------------------------
(* f32 addition and subtraction.  A value is an integer number of units of  *)
(* 2^-24; an f32 has a significand of 24 bits, so below 2^24 units every    *)
(* value is exact, and from there on the values of a binade are the         *)
(* multiples of its ulp.  A sum is rounded to the nearest value, ties to    *)
(* the even significand.                                                    *)

\* 1.0 in units of 2^-24
f32_one == 16777216

RECURSIVE f32_ulp(_)
f32_ulp(a) == IF a < f32_one THEN 1 ELSE 2 * f32_ulp(a \div 2)

f32_round(x) ==
    LET a == abs(x)
        u == f32_ulp(a)
        lo == (a \div u) * u
        r == a - lo
        nearest == IF 2 * r > u \/ (2 * r = u /\ (lo \div u) % 2 = 1)
                   THEN lo + u ELSE lo
    IN  IF x < 0 THEN -nearest ELSE nearest

f32_add(x, y) == f32_round(x + y)
f32_sub(x, y) == f32_round(x - y)

\* Vec3 + Vec3 and Vec3 - Vec3
vec3_add(v, w) == [i \in 1 .. 3 |-> f32_add(v[i], w[i])]
vec3_sub(v, w) == [i \in 1 .. 3 |-> f32_sub(v[i], w[i])]

(* f32 values off the grid.  Products, square roots and quotients of f32    *)
(* values are not multiples of 2^-24: such a value is kept as significand   *)
(* and exponent, m * 2^e with 2^23 <= |m| < 2^24 (m = 0 and e = 0 for 0.0). *)
(* Every operation takes the exact result with at least two bits more than  *)
(* the significand holds, the last of them set when bits were dropped below *)
(* it, and rounds it to the nearest value, ties to the even significand.    *)
(* The values of the model stay in the normal range of f32.                 *)

NaN == [nan |-> TRUE, m |-> 0, e |-> 0]

RECURSIVE pow2(_)
pow2(n) == IF n = 0 THEN 1 ELSE 2 * pow2(n - 1)

\* the f32 nearest to x * 2^e
float_pack(x, e) ==
    LET RECURSIVE norm(_, _)
        norm(m, k) ==
            IF m = 0 THEN [nan |-> FALSE, m |-> 0, e |-> 0]
            ELSE IF abs(m) >= f32_one THEN norm(m \div 2, k + 1)
            ELSE IF 2 * abs(m) < f32_one THEN norm(2 * m, k - 1)
            ELSE [nan |-> FALSE, m |-> m, e |-> k]
    IN  norm(f32_round(x), e)

\* a value of the grid: x units of 2^-24, cast to f32
float_of(x) == float_pack(x, -24)

float_neg(a) == [a EXCEPT !.m = -a.m]

\* f32 + f32
float_add(a, b) ==
    IF a.nan \/ b.nan THEN NaN
    ELSE IF a.m = 0 THEN b
    ELSE IF b.m = 0 THEN a
    ELSE LET hi == IF a.e >= b.e THEN a ELSE b
             lo == IF a.e >= b.e THEN b ELSE a
             d == hi.e - lo.e
             q == IF d >= 27 THEN 0 ELSE abs(lo.m) \div pow2(d - 3)
             dropped == d >= 27 \/ abs(lo.m) % pow2(d - 3) # 0
             low == IF d <= 3 THEN abs(lo.m) * pow2(3 - d)
                    ELSE IF dropped /\ q % 2 = 0 THEN q + 1 ELSE q
         IN  float_pack(8 * hi.m + (IF lo.m < 0 THEN -low ELSE low), hi.e - 3)

\* f32 - f32
float_sub(a, b) == float_add(a, float_neg(b))

\* f32 * f32: the 48 bits of the product of the significands, in halves
float_mul(a, b) ==
    IF a.nan \/ b.nan THEN NaN
    ELSE IF a.m = 0 \/ b.m = 0 THEN float_of(0)
    ELSE LET x == abs(a.m)
             y == abs(b.m)
             mid == (x \div 4096) * (y % 4096) + (x % 4096) * (y \div 4096)
             low == (mid % 4096) * 4096 + (x % 4096) * (y % 4096)
             high == (x \div 4096) * (y \div 4096) + mid \div 4096 + low \div f32_one
             rest == low % f32_one
             t == 8 * high + rest \div 2097152
             jam == IF rest % 2097152 # 0 /\ t % 2 = 0 THEN t + 1 ELSE t
         IN  float_pack(IF (a.m < 0) = (b.m < 0) THEN jam ELSE -jam, a.e + b.e + 21)

\* f32::sqrt: the root of m * 2^24 (e even), a pair of bits at a time
float_sqrt(a) ==
    IF a.nan \/ a.m < 0 THEN NaN
    ELSE IF a.m = 0 THEN a
    ELSE LET m == IF a.e % 2 = 0 THEN a.m ELSE 2 * a.m
             e == IF a.e % 2 = 0 THEN a.e ELSE a.e - 1
             RECURSIVE digits(_, _, _)
             digits(i, rem, root) ==
                 IF i < 0 THEN [rem |-> rem, root |-> root]
                 ELSE LET pair == IF i >= 12 THEN (m \div pow2(2 * (i - 12))) % 4 ELSE 0
                          r == 4 * rem + pair
                      IN  IF r >= 4 * root + 1
                          THEN digits(i - 1, r - (4 * root + 1), 2 * root + 1)
                          ELSE digits(i - 1, r, 2 * root)
             s == digits(24, 0, 0)
             t == 4 * s.root + (IF s.rem = 0 THEN 0 ELSE IF s.rem > s.root THEN 3 ELSE 1)
         IN  float_pack(t, (e - 24) \div 2 - 2)

\* f32::recip of a value that is not 0.0: 2^49 / |m|, a bit at a time
float_recip(a) ==
    IF a.nan THEN NaN
    ELSE LET x == abs(a.m)
             half == f32_one \div 2
             RECURSIVE digits(_, _, _)
             digits(i, q, rem) ==
                 IF i = 0 THEN [q |-> q, rem |-> rem]
                 ELSE IF 2 * rem >= x THEN digits(i - 1, 2 * q + 1, 2 * rem - x)
                 ELSE digits(i - 1, 2 * q, 2 * rem)
             d == IF x = half THEN digits(26, 1, 0) ELSE digits(26, 0, half)
             t == 2 * d.q + (IF d.rem # 0 THEN 1 ELSE 0)
         IN  float_pack(IF a.m < 0 THEN -t ELSE t, -50 - a.e)

\* a > b; a comparison with NaN is false
float_gt(a, b) == ~a.nan /\ ~b.nan /\ float_sub(a, b).m > 0

\* Vec3 of f32
float3_of(v) == [i \in 1 .. 3 |-> float_of(v[i])]
float3_add(v, w) == [i \in 1 .. 3 |-> float_add(v[i], w[i])]
float3_sub(v, w) == [i \in 1 .. 3 |-> float_sub(v[i], w[i])]
float3_scale(v, k) == [i \in 1 .. 3 |-> float_mul(v[i], k)]

\* Vec3::length: sqrt(dot(self, self)), the dot product summed from x to z
float3_length(v) ==
    float_sqrt(float_add(float_add(float_mul(v[1], v[1]), float_mul(v[2], v[2])),
                         float_mul(v[3], v[3])))

\* Vec3::normalize: self * length().recip().  The reciprocal of 0.0 is
\* infinite, and 0.0 times it is NaN, in every coordinate
float3_normalize(v) ==
    LET length == float3_length(v)
    IN  IF length.nan \/ length.m = 0 THEN [i \in 1 .. 3 |-> NaN]
        ELSE float3_scale(v, float_recip(length))

----------------------------------------------------------------------------
(* Degenerate geometry: the three places that normalize a vector.  The      *)
(* rotation of an edge cylinder and the direction of the view ray are       *)
(* applied to inputs; the renormalisation of the camera runs in the ticks   *)
(* of the camera controller, from the spawn of the camera on.               *)
(* Coordinates of vertices are in units of 2^-24.                           *)

\* 0.001 as f32: 8589935 * 2^-33
min_edge_length == [nan |-> FALSE, m |-> 8589935, e |-> -33]

\* the rotation create_edge_cylinder gives the cylinder of the edge between
\* two vertices.  highlight_cgar_edge casts the f64 coordinates of the
\* vertices to f32; the transform of the mesh is the identity of
\* Transform::default(), so the world endpoints are the casts
edge_cylinder_rotation(start, end) ==
    LET world_start == float3_of(start)
        world_end == float3_of(end)
        direction == float3_sub(world_end, world_start)
    IN  IF float_gt(float3_length(direction), min_edge_length)
        THEN [kind |-> "Arc", to |-> float3_normalize(direction)]
        ELSE [kind |-> "Identity", to |-> float3_of(<<0, f32_one, 0>>)]

\* the direction of the view ray in the frame of the mesh
local_direction(transformed) == vec3_normalize(transformed)

\* edges by the positions of their vertices: the same point twice; 0.0005
\* apart; one unit under and one unit over 0.001 along an axis; slanted, one
\* unit under 0.001; slanted and under 0.001 before the cast of a coordinate
\* of 1.0008 rounds it up; and apart by more
EdgeInputs ==
    {[start |-> s, end |-> <<s[1] + d[1], s[2] + d[2], s[3] + d[3]>>] :
        s \in {<<0, 0, 0>>, <<16777216, 0, 0>>, <<-8388608, 4194304, 16777216>>},
        d \in {<<0, 0, 0>>, <<8388, 0, 0>>, <<0, 16777, 0>>, <<0, 16778, 0>>,
                <<0, 10066, 13422>>, <<0, 10064, 13423>>, <<16777216, 0, 16777216>>}}

\* view directions in the frame of the mesh: ray.direction is a unit Dir3 and
\* inv_affine the inverse of the identity of Transform::default(), so the
\* vector that is normalized is never of length zero
RayInputs ==
    {<<x, y, z>> : x \in {-1, 0, 1}, y \in {-1, 0, 1}, z \in {-1, 0, 1}} \ {<<0, 0, 0>>}

\* an edge or a view ray to apply its function to, or the program with its
\* cameras spawned
DegenerateInit ==
    \/ /\ ProgramIdle
       /\ \/ \E e \in EdgeInputs :
                 call = [fn |-> "create_edge_cylinder", input |-> e, output |-> <<>>]
          \/ \E r \in RayInputs :
                 call = [fn |-> "local_direction", input |-> r, output |-> <<>>]
    \/ CamInit

\* highlight_cgar_edge on the first edge of the mesh, with the rotation its
\* cylinder gets for the vertices of the input
EdgeCylinderApplied ==
    /\ call.fn = "create_edge_cylinder"
    /\ Applied("create_edge_cylinder",
               [rotation |-> edge_cylinder_rotation(call.input.start, call.input.end),
                st |-> highlight_cgar_edge(
                           [pos |-> <<>>, target |-> <<>>, cyl |-> <<>>, cmds |-> <<>>,
                            reserved |-> {}, fresh |-> -1, log |-> <<>>],
                           {}, <<0, 1>>, MeshEnt)])

LocalDirectionApplied ==
    /\ call.fn = "local_direction"
    /\ Applied("local_direction", local_direction(call.input))

\* a step of the camera controller and its event sources, in the program
\* with its cameras spawned
DegenerateCameraStep ==
    /\ call = NoCall
    /\ CamNext

DegenerateNext == EdgeCylinderApplied \/ LocalDirectionApplied \/ DegenerateCameraStep

DegenerateSpec == DegenerateInit /\ [][DegenerateNext]_vars

----------------------------------------------------------------------------
(* The pan of a tick on the positions, in units of 2^-24.                   *)

\* variant: the offset is taken from the focus as already moved
pan_translation_from_new_focus(focus, translation, pan_offset) ==
    LET focus1 == vec3_add(focus, pan_offset)
        offset == vec3_sub(translation, focus1)
    IN  [focus |-> focus1, translation |-> vec3_add(focus1, offset)]

\* the pan step on the positions: orbit.focus += pan_offset;
\* offset = translation - (orbit.focus - pan_offset);
\* translation = orbit.focus + offset
pan_translation(focus, translation, pan_offset) ==
    LET focus1 == vec3_add(focus, pan_offset)
        offset == vec3_sub(translation, vec3_sub(focus1, pan_offset))
    IN  [focus |-> focus1, translation |-> vec3_add(focus1, offset)]

\* the renormalisation on the positions: position = translation - focus;
\* position = position.normalize() * radius; translation = focus + position
renormalize_translation(focus, translation, radius) ==
    float3_add(focus,
               float3_scale(float3_normalize(float3_sub(translation, focus)), radius))

\* the pan branch of a tick and the renormalisation it always leads to, as
\* the branch sets orbit_button_changed: the focus, the position the pan
\* step gives the camera, and the position the tick leaves it at
pan_tick(focus, translation, radius, pan_offset) ==
    LET panned == pan_translation(focus, translation, pan_offset)
    IN  [focus |-> panned.focus,
         panned |-> panned.translation,
         translation |-> renormalize_translation(float3_of(panned.focus),
                                                 float3_of(panned.translation),
                                                 float_of(radius))]

\* cameras at distance radius of their focus, as every tick that moves the
\* camera leaves it: radius 5.0 and 10.0; the focus at the origin and away
\* from it; the offset along an axis, slanted 3 : 4, and with coordinates of
\* 2^-24.  And cameras away from it: as main.rs spawns the camera, at
\* (2.5, 2.0, 5.0) with radius 5.0, and with the radius 10.0 that a zoom
\* earlier in the tick sets in main.rs, at (0, 0, 5.0) and at
\* (2^-24, 0, 5.0) of the origin and at
\* (10.0, 2.5, 10.0) of the focus (3.00000024, 3.00000024, -1.5); and at
\* distance 1.0 of the focus (3.99999, 0, 0), just under the binade of 4.0,
\* with the radius 5.0 and 20.0 that a zoom of the tick sets
PanCameras ==
    {[focus |-> f, radius |-> 5 * r,
      translation |-> vec3_add(f, <<a[1] * r, a[2] * r, a[3] * r>> )] :
        f \in {<<0, 0, 0>>, <<50331652, 50331652, -25165824>>, <<-25165824, 0, 50331652>>},
        r \in {16777216, 33554432},
        a \in {<<0, 0, 5>>, <<3, 0, 4>>, <<-4, 3, 0>>}}
    \cup {[focus |-> f, radius |-> r, translation |-> vec3_add(f, <<1, r, 1>>)] :
            f \in {<<0, 0, 0>>, <<50331652, 50331652, -25165824>>},
            r \in {83886080, 167772160}}
    \cup {[focus |-> <<0, 0, 0>>, radius |-> 83886080,
           translation |-> <<41943040, 33554432, 83886080>>],
          [focus |-> <<0, 0, 0>>, radius |-> 167772160,
           translation |-> <<0, 0, 83886080>>],
          [focus |-> <<0, 0, 0>>, radius |-> 167772160,
           translation |-> <<1, 0, 83886080>>],
          [focus |-> <<50331652, 50331652, -25165824>>, radius |-> 167772160,
           translation |-> <<167772160, 41943040, 167772160>>]}
    \cup {[focus |-> <<67108704, 0, 0>>, radius |-> r,
           translation |-> <<67108704, 0, 16777216>>] : r \in {83886080, 335544320}}

\* pan offsets: -3.14 along x; (-2.68, 0, 1.63); (0.0314, -6.0000005,
\* -6.0000005); 0.0314 along x and y; 0.0314 along x, two units less
PanOffsets ==
    {<<-52680460, 0, 0>>, <<-44999568, 0, 27391044>>,
     <<527069, -100663304, -100663304>>, <<527069, 527069, 0>>, <<527067, 0, 0>>}

PanInputs ==
    {[focus |-> c.focus, translation |-> c.translation, radius |-> c.radius,
      pan_offset |-> p] : c \in PanCameras, p \in PanOffsets}

PanInit ==
    /\ ProgramIdle
    /\ \E input \in PanInputs : call = [fn |-> "pan", input |-> input, output |-> <<>>]

PanApplied ==
    /\ call.fn = "pan"
    /\ Applied("pan", pan_tick(call.input.focus, call.input.translation,
                               call.input.radius, call.input.pan_offset))

PanNext == PanApplied

PanSpec == PanInit /\ [][PanNext]_vars

----------------------------------------------------------------------------
(* cgar_to_bevy_mesh: positions, indices and vertex normals of a mesh.      *)
(* Vertex ids count from 0; coordinates are small integers, which the cast  *)
(* to f32 keeps.                                                            *)

\* vertices and faces of the meshes converted
MaxVertices == 4
MaxFaces == 2

\* the position of vertex i: a corner of the unit grid
ConversionPositions == [i \in 1 .. MaxVertices |-> <<(i - 1) % 2, ((i - 1) \div 2) % 2, (i - 1) \div 4>>]

\* a mesh with the first n positions and the faces given as triangles: three
\* half-edges per face, each with the vertex it holds
mesh_of(n, triangles, removed) ==
    [vertices |-> SubSeq(ConversionPositions, 1, n),
     half_edges |-> [h \in 1 .. 3 * Len(triangles) |->
                        [vertex |-> triangles[((h - 1) \div 3) + 1][((h - 1) % 3) + 1]]],
     faces |-> [f \in 1 .. Len(triangles) |->
                   [removed |-> removed[f],
                    half_edges |-> <<3 * f - 2, 3 * f - 1, 3 * f>>]]]

\* the triangles a mesh of n vertices can have: both windings of the first
\* three vertices, and one on the fourth
TrianglesOn(n) ==
    IF n < 3 THEN {}
    ELSE IF n = 3 THEN {<<0, 1, 2>>, <<0, 2, 1>>}
    ELSE {<<0, 1, 2>>, <<0, 2, 1>>, <<1, 2, 3>>}

ConversionMeshes ==
    UNION {{mesh_of(n, triangles, removed) :
               n \in {0, 1, 3, MaxVertices},
               triangles \in [1 .. k -> TrianglesOn(MaxVertices)],
               removed \in [1 .. k -> BOOLEAN]} : k \in 0 .. MaxFaces}

tri_vertices_of_face(m, face_idx) ==
    LET hes == m.faces[face_idx].half_edges
    IN  <<m.half_edges[hes[1]].vertex, m.half_edges[hes[2]].vertex,
          m.half_edges[hes[3]].vertex>>

\* the loop over m.faces from face fi on: a removed face is skipped
RECURSIVE face_indices(_, _)
face_indices(m, fi) ==
    IF fi > Len(m.faces) THEN <<>>
    ELSE (IF m.faces[fi].removed THEN <<>> ELSE tri_vertices_of_face(m, fi))
             \o face_indices(m, fi + 1)

\* variant: Vec::resize that only grows
vec_resize_grow_only(v, new_len, value) ==
    v \o [i \in 1 .. (new_len - Len(v)) |-> value]

\* Vec::resize: truncates a longer vector, fills a shorter one with value
vec_resize(v, new_len, value) ==
    IF Len(v) >= new_len THEN SubSeq(v, 1, new_len)
    ELSE v \o [i \in 1 .. (new_len - Len(v)) |-> value]

vec3_cross(a, b) ==
    <<a[2] * b[3] - a[3] * b[2], a[3] * b[1] - a[1] * b[3], a[1] * b[2] - a[2] * b[1]>>

\* the loop over indices.chunks_exact(3): the face normal is added to the
\* normal of each of the three vertices
RECURSIVE accumulate_normals(_, _, _)
accumulate_normals(normals, positions, indices) ==
    IF Len(indices) < 3 THEN normals
    ELSE LET a == indices[1]
             b == indices[2]
             c == indices[3]
             n == vec3_cross(vec3_sub(positions[b + 1], positions[a + 1]),
                             vec3_sub(positions[c + 1], positions[a + 1]))
             added == [i \in DOMAIN normals |->
                          IF i - 1 \in {a, b, c} THEN vec3_add(normals[i], n)
                          ELSE normals[i]]
         IN  accumulate_normals(added, positions, SubSeq(indices, 4, Len(indices)))

\* v / |v| for a normal that has a length, (0, 1, 0) for one that has none
unit_normal(v) ==
    IF vec3_length_squared(v) > 0 THEN vec3_normalize(v).along ELSE <<0, 1, 0>>

cgar_to_bevy_mesh(m) ==
    LET positions == [i \in 1 .. Len(m.vertices) |-> m.vertices[i]]
        indices == face_indices(m, 1)
        normals == vec_resize(<<<<0, 0, 0>>>>, Len(positions), <<0, 0, 0>>)
        summed == accumulate_normals(normals, positions, indices)
    IN  [positions |-> positions,
         normals |-> [i \in DOMAIN summed |-> unit_normal(summed[i])],
         indices |-> indices]

\* the faces of a mesh name vertices it has
ConversionInit ==
    /\ ProgramIdle
    /\ \E m \in ConversionMeshes :
           /\ Len(m.faces) * 3 = Len(m.half_edges)
           /\ \A h \in DOMAIN m.half_edges : m.half_edges[h].vertex < Len(m.vertices)
           /\ call = [fn |-> "cgar_to_bevy_mesh", input |-> m, output |-> <<>>]

ConversionApplied ==
    /\ call.fn = "cgar_to_bevy_mesh"
    /\ Applied("cgar_to_bevy_mesh", cgar_to_bevy_mesh(call.input))

ConversionNext == ConversionApplied

ConversionSpec == ConversionInit /\ [][ConversionNext]_vars

----------------------------------------------------------------------------
(* Vocabulary of the properties.  They are stated on the state a tick       *)
(* leaves: the log has one entry per release event of that tick, and the    *)
(* entities are those alive once the commands of the tick are applied.      *)

\* the world once the engine has applied the commands the tick has queued
Synced == apply_commands([live |-> live, err |-> despawnErr], commands)

\* squared distance between the press and the release of a log entry
MovedSq(e) ==
    (e.end[1] - e.start[1]) * (e.end[1] - e.start[1])
    + (e.end[2] - e.start[2]) * (e.end[2] - e.start[2])

\* the release had a press record
HadPress(e) == e.class # "NoPress"

\* a qualifying click on the entity that carries mesh geometry
IsMeshClick(e) == e.class = "Click" /\ e.target = MeshEnt

MeshClickIdx == {i \in DOMAIN log : IsMeshClick(log[i])}

LastMeshClickIdx == CHOOSE i \in MeshClickIdx : \A j \in MeshClickIdx : j <= i

\* the ids an entry's commands spawn / despawn, in order
IdsOf(cmds, op) ==
    LET sel == SelectSeq(cmds, LAMBDA c : c.op = op)
    IN  [i \in DOMAIN sel |-> sel[i].id]

\* the cylinders list when release i has been handled
CylindersAfter(i) == IF i < Len(log) THEN log[i + 1].before ELSE cylinders

\* an edge without its direction
Undirected(edge) == {edge[1], edge[2]}

\* the boundary edges of a face, from the triangle it was built from
BoundaryEdges(f) ==
    LET t == grid_triangles[f]
    IN  {{t[1], t[2]}, {t[2], t[3]}, {t[3], t[1]}}

\* the edges shown by the live entities of the cylinders list
ShownEdges ==
    {Undirected(Synced.live[cylinders[i]].edge) :
        i \in {j \in DOMAIN cylinders : cylinders[j] \in DOMAIN Synced.live}}

----------------------------------------------------------------------------
(* C1: after every tick the highlight set is empty or is exactly the       *)
(* entities created by the most recent qualifying click on the mesh        *)
(* entity (its one edge, or the edges of its face); entities of an earlier *)
(* click, of this tick or of a tick before, are never in it.  A tick       *)
(* without such a click leaves the list as it was.                         *)
C1_OneSelection ==
    log # <<>> =>
        IF MeshClickIdx = {}
        THEN cylinders = log[1].before
        ELSE LET k == LastMeshClickIdx
                 e == log[k]
             IN  /\ cylinders = IdsOf(e.cmds, "spawn")
                 /\ Range(cylinders) \cap Range(log[1].before) = {}
                 /\ \A i \in MeshClickIdx :
                        i < k => Range(cylinders) \cap Range(IdsOf(log[i].cmds, "spawn")) = {}
                 /\ Range(cylinders) \subseteq DOMAIN Synced.live
                 /\ e.pick = "Edge" => ShownEdges \subseteq {{e.hit.a, e.hit.b}}
                 /\ e.pick = "Face" => ShownEdges \subseteq BoundaryEdges(e.hit.a)
                 /\ e.pick \notin {"Edge", "Face"} => cylinders = <<>>

\* two clicks on the mesh resolved in one tick, both creating highlights,
\* on top of a selection of an earlier tick
C1_Witness ==
    /\ Len(log) = 2
    /\ MeshClickIdx = {1, 2}
    /\ log[1].before # <<>>
    /\ IdsOf(log[1].cmds, "spawn") # <<>>
    /\ cylinders # <<>>

(* C2: a release whose pointer has a press record on the same target is a  *)
(* Click exactly when the squared distance between press and release is at *)
(* most 3 * 3; beyond it the release is a Drag and queues no command.      *)
C2_DeadzoneClassification ==
    \A i \in DOMAIN log :
        LET e == log[i]
        IN  (HadPress(e) /\ e.pressed_on = e.target) =>
                /\ e.class = "Click" <=> MovedSq(e) <= 3 * 3
                /\ e.class = "Drag" <=> MovedSq(e) > 3 * 3
                /\ e.class = "Drag" => e.pick = "-" /\ e.cmds = <<>>
                /\ (e.class = "Click" /\ e.target = MeshEnt) => e.pick # "-"

\* a click exactly on the deadzone and a drag just beyond it, in one tick
C2_Witness ==
    /\ \E i \in DOMAIN log :
          /\ log[i].class = "Click" /\ log[i].pressed_on = log[i].target
          /\ MovedSq(log[i]) = 9 /\ log[i].pick = "Edge"
    /\ \E i \in DOMAIN log :
          /\ log[i].class = "Drag" /\ log[i].pressed_on = log[i].target
          /\ MovedSq(log[i]) = 10

(* C3 (as claimed): a release on another target than the press of the same *)
(* pointer is a Drag and clears or creates no highlight, also within the   *)
(* deadzone.                                                               *)
C3_OtherTargetIsDrag ==
    \A i \in DOMAIN log :
        LET e == log[i]
        IN  (HadPress(e) /\ e.pressed_on # e.target) =>
                e.class = "Drag" /\ e.cmds = <<>> /\ CylindersAfter(i) = e.before

(* C4: a release classified as Drag queues no spawn and no despawn and     *)
(* leaves the cylinders list as it was; a tick of drags only leaves the    *)
(* shown selection as it was.                                              *)
C4_DragKeepsHighlights ==
    /\ \A i \in DOMAIN log :
          log[i].class = "Drag" =>
              log[i].cmds = <<>> /\ CylindersAfter(i) = log[i].before
    /\ (log # <<>> /\ \A i \in DOMAIN log : log[i].class = "Drag") =>
          /\ cylinders = log[1].before
          /\ DOMAIN Synced.live = Range(cylinders)

\* a drag while a selection is shown
C4_Witness ==
    /\ \E i \in DOMAIN log : log[i].class = "Drag" /\ log[i].before # <<>>
    /\ \A i \in DOMAIN log : log[i].class = "Drag"
    /\ cylinders # <<>>

(* C5: every release of a pointer that had a press record leaves the       *)
(* pointer without record (position and target), whatever the release      *)
(* turned out to be.                                                       *)
C5_ReleaseConsumesPress ==
    \A i \in DOMAIN log :
        HadPress(log[i]) =>
            /\ log[i].pid \notin DOMAIN presses_pos
            /\ log[i].pid \notin DOMAIN presses_target

\* a drag and an aborted click in one tick, both pointers idle afterwards
C5_Witness ==
    /\ \E i \in DOMAIN log : log[i].class = "Drag"
    /\ \E i \in DOMAIN log : log[i].class = "Click" /\ log[i].pick = "NoCamera"
    /\ presses_pos = <<>>

(* C6: the position map and the target map of PointerPresses have the same *)
(* pointer ids as keys, one record per pointer.                            *)
C6_PressMapsAgree ==
    /\ DOMAIN presses_pos = DOMAIN presses_target
    /\ DOMAIN presses_pos \subseteq Pointers
    /\ \A p \in DOMAIN presses_pos :
          presses_pos[p] \in PressPositions /\ presses_target[p] \in Targets

\* one pointer released, the other still pressed
C6_Witness ==
    /\ \E i \in DOMAIN log : HadPress(log[i])
    /\ Cardinality(DOMAIN presses_pos) = 1
    /\ Cardinality(DOMAIN presses_target) = 1

(* C7: after a qualifying click on the mesh whose ray cast returns         *)
(* Edge(v0, v1, t) the highlight set holds exactly one entity, a live one  *)
(* that shows that edge.                                                   *)
C7_EdgeHitOneHighlight ==
    (MeshClickIdx # {} /\ log[LastMeshClickIdx].pick = "Edge") =>
        /\ Len(cylinders) = 1
        /\ DOMAIN Synced.live = {cylinders[1]}
        /\ Synced.live[cylinders[1]].edge = <<log[LastMeshClickIdx].hit.a,
                                       log[LastMeshClickIdx].hit.b>>

\* an edge hit that replaces a shown selection
C7_Witness ==
    /\ MeshClickIdx # {}
    /\ log[LastMeshClickIdx].pick = "Edge"
    /\ log[LastMeshClickIdx].before # <<>>
    /\ Len(cylinders) = 1

(* C8: after a qualifying click on the mesh whose ray cast returns         *)
(* Face(face_id, _) the highlight set has one entity per half-edge of      *)
(* face_half_edges(face_id): as many as the face has boundary edges, each  *)
(* edge once.                                                              *)
C8_FaceHitAllEdges ==
    (MeshClickIdx # {} /\ log[LastMeshClickIdx].pick = "Face") =>
        LET f == log[LastMeshClickIdx].hit.a
        IN  /\ Len(cylinders) = Len(face_half_edges(f))
            /\ Len(cylinders) = Cardinality(BoundaryEdges(f))
            /\ Range(cylinders) = DOMAIN Synced.live
            /\ Cardinality(Range(cylinders)) = Len(cylinders)
            /\ ShownEdges = BoundaryEdges(f)

\* a face hit that replaces a shown selection
C8_Witness ==
    /\ MeshClickIdx # {}
    /\ log[LastMeshClickIdx].pick = "Face"
    /\ log[LastMeshClickIdx].before # <<>>
    /\ Len(cylinders) = 3

(* C9: a qualifying click on the mesh whose ray cast misses leaves the     *)
(* highlight set empty with no live highlight entity, the second of two    *)
(* such clicks as well, and no entity is despawned twice.                  *)
C9_MissLeavesEmpty ==
    (MeshClickIdx # {} /\ log[LastMeshClickIdx].pick = "Miss") =>
        /\ cylinders = <<>>
        /\ DOMAIN Synced.live = {}
        /\ ~Synced.err
        /\ \A i \in MeshClickIdx :
              (/\ i < LastMeshClickIdx
               /\ log[i].pick = "Miss"
               /\ \A j \in MeshClickIdx : ~(i < j /\ j < LastMeshClickIdx)) =>
                  /\ log[LastMeshClickIdx].before = <<>>
                  /\ log[LastMeshClickIdx].cmds = <<>>

\* two miss clicks in a row on a shown selection
C9_Witness ==
    /\ Len(log) = 2
    /\ MeshClickIdx = {1, 2}
    /\ log[1].pick = "Miss" /\ log[2].pick = "Miss"
    /\ log[1].before # <<>>
    /\ cylinders = <<>>

(* C10: every qualifying click on the mesh despawns all entities of the    *)
(* highlight set it finds, before it spawns any, whether it then hits an   *)
(* edge or a face, misses or aborts; none of them is live or listed after  *)
(* the tick.                                                               *)
C10_ClickClearsPrevious ==
    \A i \in MeshClickIdx :
        LET e == log[i]
            n == Len(e.before)
        IN  /\ Len(e.cmds) >= n
            /\ \A j \in 1 .. n : e.cmds[j] = [op |-> "despawn", id |-> e.before[j]]
            /\ \A j \in (n + 1) .. Len(e.cmds) : e.cmds[j].op = "spawn"
            /\ Range(e.before) \cap DOMAIN Synced.live = {}
            /\ Range(e.before) \cap Range(cylinders) = {}

\* a click that aborts for want of a camera on a shown selection
C10_Witness ==
    /\ \E i \in MeshClickIdx :
          log[i].pick \in {"NoCamera", "NoWindow"} /\ log[i].before # <<>>
    /\ DOMAIN Synced.live = {}

\* the click of a log entry ended before the ray was cast: no single camera,
\* no primary window, or no ray for the position
Aborted(e) == IsMeshClick(e) /\ e.pick \in {"NoCamera", "NoWindow", "RayErr"}

(* C11: a qualifying click on the mesh that finds no single camera, no     *)
(* primary window or gets no view ray only despawns the highlights it      *)
(* found and leaves the list empty; its pointer has no press record        *)
(* afterwards; the releases after it in the batch are still handled, and   *)
(* a click among them that hits creates its highlights.                    *)
C11_AbortLeavesEmpty ==
    \A i \in DOMAIN log :
        Aborted(log[i]) =>
            /\ CylindersAfter(i) = <<>>
            /\ IdsOf(log[i].cmds, "spawn") = <<>>
            /\ IdsOf(log[i].cmds, "despawn") = log[i].before
            /\ log[i].pid \notin DOMAIN presses_pos
            /\ log[i].pid \notin DOMAIN presses_target
            /\ ~Synced.err
            /\ i = LastMeshClickIdx => cylinders = <<>> /\ DOMAIN Synced.live = {}
            /\ \A j \in DOMAIN log :
                  (j > i /\ IsMeshClick(log[j]) /\ log[j].pick = "Edge") =>
                      Len(CylindersAfter(j)) = 1

\* a click without view ray on a shown selection, followed in the same
\* batch by a click that hits an edge
C11_Witness ==
    /\ Len(log) = 2
    /\ Aborted(log[1]) /\ log[1].pick = "RayErr" /\ log[1].before # <<>>
    /\ IsMeshClick(log[2]) /\ log[2].pick = "Edge"
    /\ Len(cylinders) = 1

----------------------------------------------------------------------------
(* Vocabulary of the camera properties: the observation of the tick that   *)
(* has just run.                                                           *)

Ticked == camlog # <<>>

Tick == camlog[1]

\* a tick that found its camera
Controlled == Ticked /\ Tick.resolved

ClampTo(x, lo, hi) == IF x < lo THEN lo ELSE IF x > hi THEN hi ELSE x

\* radius - scroll * radius * 0.05 within [0.1, 20.0], in 1/100
ScrollRadius(r, scroll) ==
    IF scroll = 0 THEN r ELSE ClampTo(r - ((scroll * r * 5) \div 100), 10, 2000)

\* the radius after the held keys: Equal takes 0.1 off, Minus adds 0.1
KeyRadius(r, equal, minus) ==
    LET r1 == IF equal THEN ClampTo(r - 10, 10, 2000) ELSE r
    IN  IF minus THEN ClampTo(r1 + 10, 10, 2000) ELSE r1

(* C12: whatever was scrolled and whichever zoom keys were held, in any    *)
(* tick, orbit.radius is within [0.1, 20.0] and the scale of an            *)
(* orthographic projection within [0.1, 10.0].                             *)
C12_ZoomWithinClamps ==
    /\ \A i \in DOMAIN cams :
           /\ cams[i].radius >= 10
           /\ cams[i].radius <= 2000
           /\ cams[i].projection.kind = "Orthographic" =>
                 /\ cams[i].projection.scale >= 10
                 /\ cams[i].projection.scale <= 1000
    /\ \A i \in DOMAIN other_cameras :
           other_cameras[i].kind = "Orthographic" =>
               /\ other_cameras[i].scale >= 10
               /\ other_cameras[i].scale <= 1000

\* from the upper clamp to the lower one in a single stroke of the wheel
C12_Witness ==
    /\ Controlled
    /\ Tick.before[1].radius = 2000
    /\ Tick.scroll = 20
    /\ cams[1].radius = 10

(* C13 (as claimed): the polar angle the rotation step rebuilds the offset *)
(* from is a number within [0.01, pi - 0.01], whatever the pointer delta   *)
(* and the state of the camera before.                                     *)
C13_PhiWithinPoles ==
    (Controlled /\ Tick.phi # <<>>) =>
        /\ ~Tick.phi[1].nan
        /\ Tick.phi[1].v >= 2
        /\ Tick.phi[1].v <= 626

(* C14 (as claimed): after a tick with a rotation or a pan step the camera *)
(* is at distance orbit.radius from the focus.                             *)
C14_DistanceIsRadius ==
    (Controlled /\ (Tick.rotation_move # <<0, 0>> \/ Tick.pan_move # <<0, 0>>)) =>
        \A i \in DOMAIN cams :
            ~cams[i].translation.nan /\ cams[i].translation.dist = cams[i].radius

(* C15 (as claimed): in every state, from the spawn of the camera on, the  *)
(* camera is at distance orbit.radius from the focus, and the rotation     *)
(* step never takes the acos of a number outside [-1, 1].                  *)
C15_PoseFollowsOrbit ==
    /\ \A i \in DOMAIN cams :
          /\ ~cams[i].translation.nan
          /\ cams[i].translation.dist = cams[i].radius
          /\ acos_argument(cams[i]) <= 1000000
          /\ acos_argument(cams[i]) >= -1000000
    /\ (Controlled /\ Tick.phi # <<>>) => ~Tick.phi[1].nan

(* C16: while the camera query matches no entity or several, no step       *)
(* changes any camera: focus, radius, last_mouse_pos, translation and      *)
(* projection all stay as they are.                                        *)
C16_NoCameraNoChange == [][Len(cams) # 1 => cams' = cams]_vars

\* two cameras, two ticks gone by, input pending
C16_Witness ==
    /\ Ticked
    /\ ~Tick.resolved
    /\ Len(cams) = 2
    /\ ticks = 2
    /\ cams[1].translation.dist # cams[1].radius

(* C17 (as claimed): when a tick has run, no mouse-motion and no           *)
(* mouse-wheel event of its batch is left unread, whether or not the       *)
(* camera query resolved.                                                  *)
C17_EventsDrained == Ticked => motionQ = <<>> /\ wheelQ = <<>>

(* C18: after a tick with neither the left nor the right button held       *)
(* last_mouse_pos is None; and a tick that starts from None and reads one  *)
(* motion event accumulates no rotation and no pan move.                   *)
C18_IdleClearsSample ==
    /\ (Ticked /\ ~Tick.left /\ ~Tick.right) =>
          \A i \in DOMAIN cams : cams[i].last_mouse_pos = <<>>
    /\ (Controlled /\ Tick.before[1].last_mouse_pos = <<>> /\ Tick.motion_read = 1) =>
          Tick.rotation_move = <<0, 0>> /\ Tick.pan_move = <<0, 0>>

\* a sample left by a drag is dropped by the tick after the button went up
C18_Witness ==
    /\ Controlled
    /\ ~Tick.left /\ ~Tick.right
    /\ Tick.before[1].last_mouse_pos # <<>>
    /\ Tick.motion_read = 1
    /\ cams[1].last_mouse_pos = <<>>

(* C19 (as claimed): in main.rs a tick with scroll # 0 changes the radius  *)
(* by the scroll formula only; the keys change it only in a tick with      *)
(* scroll = 0.                                                             *)
C19_KeysOnlyWithoutScroll ==
    (Controlled /\ build = "main.rs") =>
        cams[1].radius =
            IF Tick.scroll # 0
            THEN ScrollRadius(Tick.before[1].radius, Tick.scroll)
            ELSE KeyRadius(Tick.before[1].radius, Tick.equal, Tick.minus)

(* C19 (amended): in main.rs the scroll formula with its clamp comes       *)
(* first, and the step of every held zoom key is then applied with its own *)
(* clamp, in ticks with scroll as in ticks without; the controller of      *)
(* camera/systems.rs never changes the radius.                             *)
C19_KeysAfterScroll ==
    Controlled =>
        cams[1].radius =
            IF build = "main.rs"
            THEN KeyRadius(ScrollRadius(Tick.before[1].radius, Tick.scroll),
                           Tick.equal, Tick.minus)
            ELSE Tick.before[1].radius

\* one notch of the wheel and the Equal key in the same tick: 5.0 -> 4.75 -> 4.65
C19_Witness ==
    /\ Controlled
    /\ build = "main.rs"
    /\ Tick.scroll = 1 /\ Tick.equal /\ ~Tick.minus
    /\ Tick.before[1].radius = 500
    /\ cams[1].radius = 465

(* C20 (as claimed): with the collapse mode armed, a qualifying click on   *)
(* the mesh that hits an edge creates no highlight: the click queues no    *)
(* spawn and the highlight set is empty after it.                          *)
C20_ArmedEdgeHitNoHighlight ==
    edit_armed =>
        \A i \in MeshClickIdx :
            log[i].pick = "Edge" =>
                IdsOf(log[i].cmds, "spawn") = <<>> /\ CylindersAfter(i) = <<>>

(* C21 (as claimed): with the collapse mode armed, a click that hits       *)
(* Edge(v0, v1, u) submits one collapse request: v1 is collapsed onto v0   *)
(* when u < 0.5, v0 onto v1 when u > 0.5.                                  *)
C21_CollapseDirection ==
    edit_armed =>
        \A i \in MeshClickIdx :
            log[i].pick = "Edge" =>
                \E j \in DOMAIN log[i].cmds :
                    /\ log[i].cmds[j].op = "collapse"
                    /\ log[i].cmds[j].removed =
                           (IF log[i].hit.u < 5 THEN log[i].hit.b ELSE log[i].hit.a)
                    /\ log[i].cmds[j].kept =
                           (IF log[i].hit.u < 5 THEN log[i].hit.a ELSE log[i].hit.b)

\* the projection query of camera/systems.rs has a single match (a tick
\* changes no kind of projection and no number of entities)
ProjectionSingle == Len(projection_query(cams, other_cameras)) = 1

\* the pose a tick leaves when zoom, rotation, pan and renormalisation are
\* applied in this order to the camera it found, given the scroll, the held
\* keys and the two accumulated moves
FixedOrder(b, c, t) ==
    LET zoomed == IF b = "main.rs"
                  THEN [c EXCEPT !.radius =
                           KeyRadius(ScrollRadius(c.radius, t.scroll), t.equal, t.minus)]
                  ELSE [c EXCEPT !.projection =
                           IF ProjectionSingle THEN zoom_projection(@, t.scroll) ELSE @]
        rotated == IF t.rotation_move # <<0, 0>>
                   THEN rotate(zoomed, t.rotation_move) ELSE zoomed
        panned == IF t.pan_move # <<0, 0>> THEN pan(rotated, t.pan_move) ELSE rotated
        changed == \/ t.rotation_move # <<0, 0>>
                   \/ t.pan_move # <<0, 0>>
                   \/ (b = "main.rs" /\ (t.scroll # 0 \/ t.equal \/ t.minus))
    IN  IF changed THEN renormalize(panned) ELSE panned

(* C23: the camera a tick leaves is determined by the camera it found and  *)
(* by the tick's input (summed scroll, held keys, accumulated moves):      *)
(* focus, radius, translation and projection are those of zoom (of the     *)
(* radius in main.rs, of the single projection of the world in             *)
(* camera/systems.rs), then rotation, then pan, then renormalisation,      *)
(* whatever the mix of events.                                             *)
C23_TickIsFunctionOfInput ==
    Controlled =>
        LET expected == FixedOrder(build, Tick.before[1], Tick)
        IN  /\ Len(cams) = 1
            /\ cams[1].focus = expected.focus
            /\ cams[1].radius = expected.radius
            /\ cams[1].translation = expected.translation
            /\ cams[1].projection = expected.projection

\* a tick of main.rs that zooms and rotates a camera that is off its radius
C23_Witness ==
    /\ Controlled
    /\ build = "main.rs"
    /\ Tick.scroll # 0
    /\ Tick.wheel_read = 1 /\ Tick.motion_read = 1
    /\ Tick.rotation_move # <<0, 0>>
    /\ ~cams[1].translation.nan
    /\ cams[1].translation # Tick.before[1].translation

\* transform.translation - orbit.focus of a camera, as a Vec3 in 1/100
Offset(c) == new_position(c.translation.dist, c.translation.theta, c.translation.phi)

(* C24: from the offset (radius, 0, 0), that is theta = 0 and phi = pi/2,  *)
(* a tick without zoom whose rotation move is (314, 0) pixels, a quarter   *)
(* turn at 0.005 rad per pixel, leaves theta = pi/2 and the offset         *)
(* (0, 0, radius); focus and radius are as before.                         *)
C24_QuarterTurn ==
    (/\ Controlled
     /\ ~Tick.before[1].translation.nan
     /\ Offset(Tick.before[1]) = <<Tick.before[1].radius, 0, 0>>
     /\ Tick.before[1].translation.theta = 0
     /\ Tick.rotation_move = <<314, 0>>
     /\ Tick.scroll = 0 /\ ~Tick.equal /\ ~Tick.minus) =>
        /\ ~cams[1].translation.nan
        /\ cams[1].translation.theta = 314
        /\ cams[1].translation.phi = 314
        /\ Offset(cams[1]) = <<0, 0, Tick.before[1].radius>>
        /\ cams[1].focus = Tick.before[1].focus
        /\ cams[1].radius = Tick.before[1].radius

\* the quarter turn has been made
C24_Witness ==
    /\ Controlled
    /\ Offset(Tick.before[1]) = <<Tick.before[1].radius, 0, 0>>
    /\ Tick.before[1].translation.theta = 0
    /\ Tick.rotation_move = <<314, 0>>
    /\ Offset(cams[1]) = <<0, 0, cams[1].radius>>

\* the events of pointer p in the batch just handled, in order of emission
EventsOf(p) == SelectSeq(arrival, LAMBDA tag : tag[2] = p)

\* the tick has handled a batch: both queues are read to their end
BatchHandled == pressQ = <<>> /\ releaseQ = <<>> /\ arrival # <<>>

\* C25: the pairing of presses and releases follows the order of the events:
\* a release consumes only the record of a press that came before it, so a
\* pointer whose last event of a batch is a press holds a press record when
\* the tick is over, whatever else the batch held for that pointer.
C25_PairingFollowsArrival ==
    BatchHandled =>
        \A p \in Pointers :
            LET evs == EventsOf(p)
            IN  (evs # <<>> /\ evs[Len(evs)][1] = "Pressed")
                    => p \in DOMAIN presses_pos

\* the press records once the press loop has read the batch
AfterPresses ==
    read_press_events([pos |-> presses_pos, target |-> presses_target], pressQ)

\* no release of the batch finds a press record for its pointer
NoReleaseHasPress ==
    \A i \in DOMAIN releaseQ : releaseQ[i].pointer_id \notin DOMAIN AfterPresses.pos

\* C26: a release for a pointer without a press record performs no picking
\* and changes nothing: it queues no command and leaves the cylinders list as
\* it found it; a tick whose releases all lack a record leaves the highlight
\* set and the live entities as they were and the press records as the press
\* loop left them.
C26_ReleaseWithoutPress ==
    [][(releaseQ # <<>> /\ releaseQ' = <<>>) =>
          /\ \A i \in DOMAIN log' :
                 log'[i].class = "NoPress" =>
                     /\ log'[i].pick = "-"
                     /\ log'[i].cmds = <<>>
                     /\ (IF i < Len(log') THEN log'[i + 1].before ELSE cylinders')
                            = log'[i].before
          /\ NoReleaseHasPress =>
                 /\ cylinders' = cylinders
                 /\ commands' = <<>>
                 /\ live' = live
                 /\ despawnErr' = despawnErr
                 /\ presses_pos' = AfterPresses.pos
                 /\ presses_target' = AfterPresses.target
                 /\ \A i \in DOMAIN log' : log'[i].class = "NoPress"]_vars

\* a release without a record was handled while highlights were shown and
\* another pointer was pressed
C26_Witness ==
    /\ \E i \in DOMAIN log : log[i].class = "NoPress"
    /\ \A i \in DOMAIN log : log[i].class = "NoPress"
    /\ cylinders # <<>>
    /\ presses_pos # <<>>

\* a qualifying click on an entity that mesh_query does not match
IsOtherClick(e) == e.class = "Click" /\ e.pick = "NotMesh"

\* C27: a qualifying click whose target carries no mesh geometry leaves the
\* highlight set as it is: it queues no command, the cylinders list is neither
\* cleared nor replaced, and the press record of its pointer is consumed.
C27_OtherTargetKeepsHighlights ==
    \A i \in DOMAIN log :
        IsOtherClick(log[i]) =>
            /\ log[i].target # MeshEnt
            /\ log[i].cmds = <<>>
            /\ CylindersAfter(i) = log[i].before
            /\ log[i].pid \notin DOMAIN presses_pos
            /\ log[i].pid \notin DOMAIN presses_target

\* such a click happened while highlights were shown
C27_Witness ==
    \E i \in DOMAIN log :
        /\ IsOtherClick(log[i])
        /\ log[i].before # <<>>
        /\ cylinders = log[i].before
        /\ DOMAIN Synced.live # {}

\* the elements of a list
ListedIn(list) == {list[i] : i \in DOMAIN list}

\* C28: no highlight entity leaks.  Once the commands of a tick are applied
\* the live EdgeHighlight entities are the entities of
\* HighlightedEdges.cylinders, each listed once; every entity a release
\* spawned is in the list after it, every entity it despawned was in the list
\* before it and is out of it afterwards, and no despawn named an entity
\* that was not alive.
C28_NoHighlightLeak ==
    /\ DOMAIN Synced.live = ListedIn(cylinders)
    /\ Cardinality(ListedIn(cylinders)) = Len(cylinders)
    /\ ~Synced.err
    /\ \A i \in DOMAIN log :
           LET spawned == ListedIn(IdsOf(log[i].cmds, "spawn"))
               despawned == ListedIn(IdsOf(log[i].cmds, "despawn"))
           IN  /\ spawned \subseteq ListedIn(CylindersAfter(i))
               /\ despawned = ListedIn(log[i].before) \ ListedIn(CylindersAfter(i))
               /\ Len(IdsOf(log[i].cmds, "despawn")) = Cardinality(despawned)

\* a click has despawned the highlights of the click before it and spawned
\* its own
C28_Witness ==
    /\ \E i \in DOMAIN log :
           /\ IdsOf(log[i].cmds, "despawn") # <<>>
           /\ IdsOf(log[i].cmds, "spawn") # <<>>
    /\ Len(cylinders) > 1

\* the move the tick accumulates from the motion events in the queue: the raw
\* delta of the last one minus the sample the tick starts from
TelescopedMove ==
    LET first == IF cams[1].last_mouse_pos # <<>>
                 THEN cams[1].last_mouse_pos[1] ELSE motionQ[1]
    IN  vec_sub(motionQ[Len(motionQ)], first)

\* C29: within a tick with a button held the accumulated move telescopes: it
\* is the raw delta of the last motion event minus last_mouse_pos as the tick
\* found it, or minus the raw delta of the first event when there was none;
\* a zero move rotates and pans nothing; last_mouse_pos ends as the raw
\* delta of the last event.
C29_MoveTelescopes ==
    [][(/\ ticks' = ticks + 1
        /\ Len(cams) = 1
        /\ motionQ # <<>>
        /\ camlog'[1].left \/ camlog'[1].right) =>
           LET t == camlog'[1]
               move == IF t.left THEN t.rotation_move ELSE t.pan_move
           IN  /\ move = TelescopedMove
               /\ cams'[1].last_mouse_pos = <<motionQ[Len(motionQ)]>>
               /\ TelescopedMove = <<0, 0>> =>
                      /\ cams'[1].focus = cams[1].focus
                      /\ cams'[1].translation.theta = cams[1].translation.theta
                      /\ cams'[1].translation.phi = cams[1].translation.phi]_vars

\* a tick with a button held has read two motion events, starting from the
\* sample the tick before left, and accumulated a move
C29_Witness ==
    /\ Controlled
    /\ Tick.left \/ Tick.right
    /\ Tick.motion_read = 2
    /\ Tick.before[1].last_mouse_pos # <<>>
    /\ Tick.rotation_move # <<0, 0>> \/ Tick.pan_move # <<0, 0>>

\* C30: the left button has priority.  With the left button held, alone or
\* together with the right one, the tick accumulates a rotation move only:
\* the pan move is zero and orbit.focus is unchanged.  A pan move is
\* accumulated only with the right button held and the left one not, and
\* then the rotation move is zero.
C30_LeftButtonFirst ==
    Controlled =>
        /\ Tick.left =>
               /\ Tick.pan_move = <<0, 0>>
               /\ cams[1].focus = Tick.before[1].focus
        /\ Tick.pan_move # <<0, 0>> => Tick.right /\ ~Tick.left
        /\ Tick.rotation_move # <<0, 0>> => Tick.left
        /\ cams[1].focus # Tick.before[1].focus => Tick.right /\ ~Tick.left

\* both buttons were held and the motion rotated the camera
C30_Witness ==
    /\ Controlled
    /\ Tick.left /\ Tick.right
    /\ Tick.rotation_move # <<0, 0>>
    /\ cams[1].translation # Tick.before[1].translation

\* C22: handle_mesh_click runs in every frame, after the camera controller
\* and after the transform propagation of that frame, so that a click is
\* resolved against the camera pose of the same frame.
C22_PickingAfterCamera ==
    [][(frame # <<>> /\ frame' = <<>>) =>
          \E i, j, k \in DOMAIN frame :
              /\ frame[i] = "camera_controller"
              /\ frame[j] = "propagate_transforms"
              /\ frame[k] = "handle_mesh_click"
              /\ i < k
              /\ j < k]_vars

\* C31: the wheel events of a tick are summed into scroll whatever buttons
\* are held: the scroll of the tick is the sum of the y-values in the queue,
\* and the zoom it applies (the radius in main.rs, together with the keys
\* held; in camera/systems.rs the orthographic scale, when the camera is the
\* only one with a projection) is the zoom of that sum, the same with the
\* left button, the right one, both or neither.
C31_ScrollSummedWhateverButtons ==
    [][(ticks' = ticks + 1 /\ Len(cams) = 1) =>
          LET t == camlog'[1]
              sum == f32_sum(wheelQ)
          IN  /\ t.scroll = sum
              /\ t.wheel_read = Len(wheelQ)
              /\ build = "main.rs" =>
                     cams'[1].radius =
                         KeyRadius(ScrollRadius(cams[1].radius, sum), t.equal, t.minus)
              /\ build = "camera/systems.rs" =>
                     /\ cams'[1].projection =
                            (IF ProjectionSingle
                             THEN zoom_projection(cams[1].projection, sum)
                             ELSE cams[1].projection)
                     /\ cams'[1].radius = cams[1].radius]_vars

\* two wheel events were summed and zoomed the camera while both buttons
\* were held
C31_Witness ==
    /\ Controlled
    /\ Tick.left /\ Tick.right
    /\ Tick.wheel_read = 2
    /\ Tick.scroll # 0
    /\ \/ cams[1].radius # Tick.before[1].radius
       \/ cams[1].projection # Tick.before[1].projection

\* the offset of the camera from the focus, as the controller computes it
OffsetOf(focus, translation) == vec3_sub(translation, focus)

\* the largest coordinate, in absolute value, of the positions
LargestOf(vs) ==
    CHOOSE m \in {abs(vs[k][i]) : k \in DOMAIN vs, i \in 1 .. 3} :
        \A k \in DOMAIN vs, i \in 1 .. 3 : abs(vs[k][i]) <= m

\* the offset of the camera from the focus in the state the tick leaves
OffsetLeft(out) == float3_sub(out.translation, float3_of(out.focus))

\* the coordinates of a Vec3 of f32 in units of 2^-24, without sign, rounded up
UnitsOf(v) ==
    [i \in 1 .. 3 |->
        IF v[i].e >= -24 THEN abs(v[i].m) * pow2(v[i].e + 24)
        ELSE IF v[i].e < -47 THEN 1
        ELSE abs(v[i].m) \div pow2(-24 - v[i].e) + 1]

\* |a - b| <= t
float_within(a, b, t) ==
    LET d == float_sub(a, b)
    IN  ~d.nan /\ ~float_gt([d EXCEPT !.m = abs(d.m)], t)

OnlyRotated ==
    /\ Controlled
    /\ Tick.rotation_move # <<0, 0>>
    /\ Tick.pan_move = <<0, 0>>
    /\ build = "main.rs" => (Tick.scroll = 0 /\ ~Tick.equal /\ ~Tick.minus)

\* C33: the rotation step changes only the Transform: after a tick that only
\* rotates, orbit.focus and orbit.radius are what they were, whatever the
\* rotation move; and no tick changes orbit.upside_down of any camera.
C33_RotationKeepsOrbit ==
    /\ OnlyRotated =>
           /\ cams[1].focus = Tick.before[1].focus
           /\ cams[1].radius = Tick.before[1].radius
    /\ Ticked =>
           /\ Len(cams) = Len(Tick.before)
           /\ \A i \in DOMAIN cams : cams[i].upside_down = Tick.before[i].upside_down

\* a tick rotated the camera and did nothing else
C33_Witness ==
    /\ OnlyRotated
    /\ cams[1].translation # Tick.before[1].translation
    /\ ~cams[1].translation.nan

\* 0.001 in units of 2^-24, rounded down, and its square in units of 2^-48,
\* rounded down
max_edge_units == 16777
min_edge_length_sq == 281474976

JustPressedUpTo(n) == {m \in 1 .. n : call.input.kb[m].just_pressed}

\* C35: toggle_wireframe flips WireframeConfig.global once in every tick in
\* which key W was just pressed and leaves it alone in every other tick, also
\* while W stays held: after n ticks the value is the first one flipped once
\* per tick with a fresh press, so two toggles give the first value back.
C35_ToggleOncePerPress ==
    call.fn = "toggle_wireframe" =>
        \A n \in DOMAIN call.output :
            LET before == IF n = 1 THEN call.input.global ELSE call.output[n - 1]
            IN  /\ call.output[n] = (IF call.input.kb[n].just_pressed
                                     THEN ~before ELSE before)
                /\ call.output[n] = (IF Cardinality(JustPressedUpTo(n)) % 2 = 0
                                     THEN call.input.global ELSE ~call.input.global)

\* W was pressed, held for a tick, and pressed again after its release: the
\* second toggle gave the first value back
C35_Witness ==
    /\ call.fn = "toggle_wireframe"
    /\ call.input.kb = <<KeyJustPressed, KeyHeld, KeyUp, KeyJustPressed>>
    /\ Len(call.output) = MaxKeyTicks
    /\ call.output[2] # call.input.global
    /\ call.output[4] = call.input.global

\* the faces of mesh m that are not removed, in face order
KeptFaces(m) == SelectSeq([f \in DOMAIN m.faces |-> f], LAMBDA f : ~m.faces[f].removed)

\* the three vertices of face f, read off its half-edges
CornersOf(m, f) ==
    [k \in 1 .. 3 |-> m.half_edges[m.faces[f].half_edges[k]].vertex]

\* C36: cgar_to_bevy_mesh emits three indices for every face that is not
\* removed, in face order, and none for a removed face; there is one
\* position per vertex and as many normals as positions, also for a mesh
\* without vertices; a vertex that no emitted triangle names has the normal
\* (0, 1, 0).
C36_MeshConversion ==
    Returned("cgar_to_bevy_mesh") =>
        LET m == call.input
            out == call.output[1]
            kept == KeptFaces(m)
        IN  /\ Len(out.indices) = 3 * Len(kept)
            /\ \A k \in DOMAIN kept :
                   SubSeq(out.indices, 3 * k - 2, 3 * k) = CornersOf(m, kept[k])
            /\ Len(out.positions) = Len(m.vertices)
            /\ Len(out.normals) = Len(out.positions)
            /\ \A v \in 0 .. (Len(m.vertices) - 1) :
                   (\A i \in DOMAIN out.indices : out.indices[i] # v)
                       => out.normals[v + 1] = <<0, 1, 0>>

\* a mesh of four vertices with a removed face and a kept one: the vertex
\* the kept face does not name has the fallback normal, the others the
\* normal of the face
C36_Witness ==
    /\ Returned("cgar_to_bevy_mesh")
    /\ Len(call.input.vertices) = 4
    /\ Len(call.input.faces) = 2
    /\ call.input.faces[1].removed
    /\ ~call.input.faces[2].removed
    /\ call.output[1].indices = <<0, 1, 2>>
    /\ call.output[1].normals = <<<<0, 0, 1>>, <<0, 0, 1>>, <<0, 0, 1>>, <<0, 1, 0>>>>
====
